---- MODULE Spec2Model ----
(***************************************************************************)
(* Model of the bitcask storage engine (aixiasang/bitcask): segment files  *)
(* (wal-<id>.log), the in-memory index, the hint snapshot, recovery, batch *)
(* transactions and merge.                                                 *)
(*                                                                         *)
(* A segment file is the sequence of the encoded records appended to it;   *)
(* an encoded record carries its type byte, its stored key (for txn-typed  *)
(* records the user key prefixed with the 4-byte big-endian txn id) and    *)
(* its value bytes.  Offsets and lengths are byte counts computed from the *)
(* record layout (9-byte header, key, value, 4-byte CRC).                  *)
(***************************************************************************)
EXTENDS Integers, Sequences, FiniteSets, TLC

----------------------------------------------------------------------------
(* Bounds of the model *)

NumKeys == 2

(* Budgets of the specifications: how many writes (put, delete), commits,  *)
(* merges, hint generations and reopens a behaviour may perform, how many  *)
(* entries a batch may buffer, and the configured max_file_size.           *)
MaxWrites == 1
MaxCommits == 1
MaxMerges == 1
MaxHints == 1
MaxOpens == 1
MaxBatchOps == 1
MaxFileSize == 45
KVWrites == 3
KVOpens == 2
KVFileSize == 29
MergeWrites == 3
MergeMerges == 2
MergeOpens == 1
MergeFileSize == 29
BatchWrites == 1
BatchCommits == 2
BatchOpens == 1
BatchOps == 2
BatchFileSize == 45
NumThreads == 2
ScanLimit == 2
ConcWrites == 3
ConcFileSize == 14
TxnWrites == 1
TxnCommits == 2
TxnFileSize == 45
SizeCommits == 1
SizeOps == 2
SmallBatchSize == 2
MaxHintBytes == 40
RotWrites == 2
RotMerges == 1
RotOpens == 1
RotFileSize == 14
MaxCut == 14
LargeFileSize == 200
CallWrites == 1
CallCommits == 1
CallMerges == 1
CallHints == 1
CallBatchOps == 1
CallsPerThread == 1

(* Program constants *)

HeaderLen == 9
CrcLen == 4
TxnIdLen == 4
RecordTypePut == 0
RecordTypeDelete == 1
RecordTypeBegin == 2
RecordTypeTxnPut == 3
RecordTypeTxnDelete == 4
RecordTypeTxnCommit == 5
BatchSize == 200
MaxKeyLength == 10485760
MaxValueLength == 104857600

----------------------------------------------------------------------------
(* Byte strings.  A []byte is a sequence of bytes; the nil slice is the    *)
(* distinguished value Nil, whose length is 0 and which writes no bytes.   *)

Nil == <<-1>>

Keys == { <<96 + i>> : i \in 1..NumKeys }

Values == { Nil, <<>>, <<1>> }

Bytes(v) == IF v = Nil THEN <<>> ELSE v

TxnBeginKey == <<116, 120, 110, 95, 98, 101, 103, 105, 110>>

TxnCommitKey == <<116, 120, 110, 95, 99, 111, 109, 109, 105, 116>>

----------------------------------------------------------------------------
(* utils: txn id prefix and key comparator *)

PutUint32(n) ==
    << (n \div 16777216) % 256, (n \div 65536) % 256, (n \div 256) % 256, n % 256 >>

Uint32(b) == b[1] * 16777216 + b[2] * 65536 + b[3] * 256 + b[4]

EncodeTxnId(txnId, key) == PutUint32(txnId) \o Bytes(key)

DecodeTxnId(data) ==
    << Uint32(SubSeq(data, 1, TxnIdLen)), SubSeq(data, TxnIdLen + 1, Len(data)) >>

RECURSIVE BytesLess(_, _)
BytesLess(a, b) ==
    IF a = <<>> THEN b # <<>>
    ELSE IF b = <<>> THEN FALSE
    ELSE IF a[1] # b[1] THEN a[1] < b[1]
    ELSE BytesLess(Tail(a), Tail(b))

Less(a, b) ==
    IF Len(a) # Len(b) THEN Len(a) < Len(b) ELSE BytesLess(a, b)

----------------------------------------------------------------------------
(* record: construction, encoding, decoding *)

newRecord(key, value, recordType) ==
    [RecordType |-> recordType, Key |-> key, Value |-> value]

NewRecord(key, value) ==
    IF value = Nil THEN newRecord(key, Nil, RecordTypeDelete)
    ELSE newRecord(key, value, RecordTypePut)

NewTxnRecord(key, value) ==
    IF value = Nil THEN newRecord(key, Nil, RecordTypeTxnDelete)
    ELSE newRecord(key, value, RecordTypeTxnPut)

NewTxnCommit(key) == newRecord(key, Nil, RecordTypeTxnCommit)

NewTxnBegin(key) == newRecord(key, Nil, RecordTypeBegin)

(* The encoded record: the type byte, the key bytes and the value bytes    *)
(* (a nil value encodes as zero value bytes).                              *)
Encode(rec) ==
    [RecordType |-> rec.RecordType, Key |-> Bytes(rec.Key), Value |-> Bytes(rec.Value)]

(* Length in bytes of an encoded record; of a torn one, what is left. *)
EncodedLen(enc) ==
    IF "damage" \in DOMAIN enc /\ enc.damage = "torn" THEN enc.cut
    ELSE HeaderLen + Len(enc.Key) + Len(enc.Value) + CrcLen

(* Decoding strips the txn id prefix of TxnPut and TxnDelete keys only;    *)
(* a decoded zero-length value is an empty, non-nil slice.                 *)
DecodeRecord(enc) ==
    [RecordType |-> enc.RecordType,
     Key |-> IF enc.RecordType \in {RecordTypeTxnPut, RecordTypeTxnDelete}
             THEN DecodeTxnId(enc.Key)[2] ELSE enc.Key,
     Value |-> enc.Value]

(* Record.Encode and DecodeRecord on bytes.  ChecksumIEEE stands for       *)
(* crc32.ChecksumIEEE: a position-weighted byte sum below 2^24, of which  *)
(* only the equality of a stored and a computed checksum is used.          *)
RECURSIVE WeightedSum(_, _)
WeightedSum(b, i) ==
    IF i > Len(b) THEN 0 ELSE i * (b[i] + 1) + WeightedSum(b, i + 1)

ChecksumIEEE(b) == WeightedSum(b, 1) % 16777216

RecordBody(recordType, keyLength, key, value) ==
    <<recordType>> \o PutUint32(keyLength) \o PutUint32(Len(value)) \o key \o value

EncodeBytes(enc) ==
    RecordBody(enc.RecordType, Len(enc.Key), enc.Key, enc.Value)
        \o PutUint32(ChecksumIEEE(RecordBody(enc.RecordType, Len(enc.Key), enc.Key,
                                             enc.Value)))

NoRecord == [ok |-> FALSE, rec |-> newRecord(<<>>, <<>>, RecordTypePut)]

(* DecodeRecord, with the header fields already read: the length checks,   *)
(* the CRC check, the strip of the txn id prefix.                          *)
DecodeBody(data, recordType, keyLength, valueLength) ==
    IF keyLength > MaxKeyLength \/ valueLength > MaxValueLength THEN NoRecord
    ELSE IF Len(data) < HeaderLen + keyLength + valueLength + CrcLen THEN NoRecord
    ELSE IF Uint32(SubSeq(data, HeaderLen + keyLength + valueLength + 1,
                          HeaderLen + keyLength + valueLength + CrcLen))
            # ChecksumIEEE(SubSeq(data, 1, HeaderLen + keyLength + valueLength))
    THEN NoRecord
    ELSE IF recordType \in {RecordTypeTxnPut, RecordTypeTxnDelete}
            /\ keyLength < TxnIdLen
    THEN NoRecord
    ELSE [ok |-> TRUE,
          rec |-> DecodeRecord(
                      [RecordType |-> recordType,
                       Key |-> SubSeq(data, HeaderLen + 1, HeaderLen + keyLength),
                       Value |-> SubSeq(data, HeaderLen + keyLength + 1,
                                        HeaderLen + keyLength + valueLength)])]

DecodeBytes(data) ==
    IF Len(data) < HeaderLen THEN NoRecord
    ELSE DecodeBody(data, data[1], Uint32(SubSeq(data, 2, 5)),
                    Uint32(SubSeq(data, 6, 9)))

(* A record of a file that is not what Encode wrote carries its damage:    *)
(* "torn" (only the first cut bytes are in the file), "crc" (the stored    *)
(* checksum is off by one) or "size" (the key length in the header is      *)
(* above the plausible maximum).                                           *)
Damaged(enc) == "damage" \in DOMAIN enc

Damage(enc, damage, cut) ==
    [RecordType |-> enc.RecordType, Key |-> enc.Key, Value |-> enc.Value,
     damage |-> damage, cut |-> cut]

(* The bytes a record of a file occupies. *)
StoredBytes(enc) ==
    IF ~Damaged(enc) THEN EncodeBytes(enc)
    ELSE IF enc.damage = "torn" THEN SubSeq(EncodeBytes(enc), 1, enc.cut)
    ELSE IF enc.damage = "crc"
    THEN RecordBody(enc.RecordType, Len(enc.Key), enc.Key, enc.Value)
             \o PutUint32((ChecksumIEEE(RecordBody(enc.RecordType, Len(enc.Key),
                                                   enc.Key, enc.Value)) + 1)
                          % 16777216)
    ELSE RecordBody(enc.RecordType, MaxKeyLength + 1, enc.Key, enc.Value)
             \o PutUint32(ChecksumIEEE(RecordBody(enc.RecordType, MaxKeyLength + 1,
                                                  enc.Key, enc.Value)))

RECURSIVE FileBytes(_)
FileBytes(recs) ==
    IF recs = <<>> THEN <<>> ELSE StoredBytes(Head(recs)) \o FileBytes(Tail(recs))

HasDamage(recs) == \E i \in 1..Len(recs) : Damaged(recs[i])

----------------------------------------------------------------------------
(* Segment files *)

RECURSIVE SizeOf(_)
SizeOf(recs) ==
    IF recs = <<>> THEN 0 ELSE EncodedLen(Head(recs)) + SizeOf(Tail(recs))

(* Offset at which the i-th record of a file starts. *)
OffsetOf(recs, i) == SizeOf(SubSeq(recs, 1, i - 1))

NewPos(fileId, offset, length) ==
    [FileId |-> fileId, Offset |-> offset, Length |-> length]

(* Wal.ReadPos on the bytes of a file: bounds check against the file      *)
(* size, then DecodeRecord of the bytes at the location.                   *)
ReadPosBytes(b, pos) ==
    IF pos.Offset >= Len(b) \/ pos.Offset + pos.Length > Len(b) THEN NoRecord
    ELSE DecodeBytes(SubSeq(b, pos.Offset + 1, pos.Offset + pos.Length))

(* Wal.ReadPos.  A location that is exactly a record Encode wrote decodes  *)
(* to that record; any other location is decoded from the bytes there.     *)
ReadPos(recs, pos) ==
    LET hits == { i \in 1..Len(recs) :
                    /\ ~Damaged(recs[i])
                    /\ OffsetOf(recs, i) = pos.Offset
                    /\ EncodedLen(recs[i]) = pos.Length }
    IN  IF hits # {}
        THEN [ok |-> TRUE, rec |-> DecodeRecord(recs[CHOOSE i \in hits : TRUE])]
        ELSE ReadPosBytes(FileBytes(recs), pos)

----------------------------------------------------------------------------
(* index: ordered map from key to location *)

IndexPut(memTable, key, pos) ==
    [k \in DOMAIN memTable \cup {key} |-> IF k = key THEN pos ELSE memTable[k]]

IndexDelete(memTable, key) ==
    [k \in DOMAIN memTable \ {key} |-> memTable[k]]

EmptyIndex == [k \in {} |-> NewPos(0, 0, 0)]

RECURSIVE Ascend(_)
Ascend(keys) ==
    IF keys = {} THEN <<>>
    ELSE LET m == CHOOSE x \in keys : \A y \in keys : x = y \/ Less(x, y)
         IN  <<m>> \o Ascend(keys \ {m})

----------------------------------------------------------------------------
(* Engine operations on an engine value e:                                 *)
(*   files    segment id -> encoded records of wal-<id>.log                *)
(*   memTable key -> location                                              *)
(*   fileId   id of the active segment, offset: its tracked write offset   *)
(*   oldWal   ids of the sealed segment handles, fileIds: list of sealed   *)
(*            ids kept for merge                                           *)
(*   status   "ok", "error" (the call returned an error) or "panic"        *)
(*   conf     the configuration (MaxFileSize)                              *)

Engine(c, f, m, id, off, old, ids) ==
    [conf |-> c, files |-> f, memTable |-> m, fileId |-> id, offset |-> off,
     oldWal |-> old, fileIds |-> ids, status |-> "ok"]

(* wal.NewWal: open wal-<id>.log, creating it when absent. *)
NewWal(f, id) ==
    IF id \in DOMAIN f THEN f
    ELSE [i \in DOMAIN f \cup {id} |-> IF i = id THEN <<>> ELSE f[i]]

(* mustRotate that keeps the file id: the sealed segment stays the active  *)
(* one.                                                                    *)
mustRotateSameId(e) ==
    [e EXCEPT !.oldWal = e.oldWal \cup {e.fileId},
              !.fileIds = Append(e.fileIds, e.fileId)]

mustRotate(e) ==
    [e EXCEPT !.oldWal = e.oldWal \cup {e.fileId},
              !.fileIds = Append(e.fileIds, e.fileId),
              !.fileId = e.fileId + 1,
              !.offset = 0,
              !.files = NewWal(e.files, e.fileId + 1)]

tryRotate(e) ==
    IF e.offset < e.conf.MaxFileSize THEN e ELSE mustRotate(e)

(* Wal.write: the bytes go to the end of the file (O_APPEND); the returned *)
(* location uses the tracked offset.                                       *)
WalWritePos(e, rec) == NewPos(e.fileId, e.offset, EncodedLen(Encode(rec)))

WalWrite(e, rec) ==
    [e EXCEPT !.files[e.fileId] = Append(e.files[e.fileId], Encode(rec)),
              !.offset = e.offset + EncodedLen(Encode(rec))]

BitcaskPut(e, key, value) ==
    IF key = Nil THEN [e EXCEPT !.status = "error"]
    ELSE LET r == tryRotate(e)
             rec == NewRecord(key, value)
             pos == WalWritePos(r, rec)
             w == WalWrite(r, rec)
         IN  [w EXCEPT !.memTable = IndexPut(w.memTable, key, pos)]

(* Delete without the index lookup: a tombstone is appended for every key. *)
BitcaskDeleteAlways(e, key) ==
    [WalWrite(tryRotate(e), NewRecord(key, Nil)) EXCEPT
        !.memTable = IndexDelete(e.memTable, key)]

BitcaskDelete(e, key) ==
    IF key \notin DOMAIN e.memTable THEN e
    ELSE LET r == tryRotate(e)
             w == WalWrite(r, NewRecord(key, Nil))
         IN  [w EXCEPT !.memTable = IndexDelete(w.memTable, key)]

(* Bitcask.get: the value, the found flag and the error. *)
get(e, key) ==
    IF key = Nil
    THEN [value |-> Nil, ok |-> FALSE, err |-> "key cannot be nil"]
    ELSE IF key \notin DOMAIN e.memTable
    THEN [value |-> Nil, ok |-> FALSE, err |-> "ErrKeyNotFound"]
    ELSE IF ~(e.memTable[key].FileId = e.fileId \/ e.memTable[key].FileId \in e.oldWal)
    THEN [value |-> Nil, ok |-> FALSE, err |-> "file not found"]
    ELSE IF e.memTable[key].FileId \notin DOMAIN e.files
            \/ ~ReadPos(e.files[e.memTable[key].FileId], e.memTable[key]).ok
    THEN [value |-> Nil, ok |-> FALSE, err |-> "error reading from file"]
    ELSE IF ReadPos(e.files[e.memTable[key].FileId], e.memTable[key]).rec.RecordType
               = RecordTypeDelete
    THEN [value |-> Nil, ok |-> FALSE, err |-> "ErrKeyHasDeleted"]
    ELSE [value |-> ReadPos(e.files[e.memTable[key].FileId], e.memTable[key]).rec.Value,
          ok |-> TRUE, err |-> ""]

(* Bitcask.get and Bitcask.Get: every error collapses to (nil, false). *)
NotFound == <<Nil, FALSE>>

BitcaskGet(e, key) ==
    IF key \notin DOMAIN e.memTable THEN NotFound
    ELSE LET pos == e.memTable[key]
         IN  IF ~(pos.FileId = e.fileId \/ pos.FileId \in e.oldWal) THEN NotFound
             ELSE IF pos.FileId \notin DOMAIN e.files THEN NotFound
             ELSE LET r == ReadPos(e.files[pos.FileId], pos)
                  IN  IF ~r.ok THEN NotFound
                      ELSE IF r.rec.RecordType = RecordTypeDelete THEN NotFound
                      ELSE <<r.rec.Value, TRUE>>

----------------------------------------------------------------------------
(* Scan and range scan *)

Greater(a, b) ==
    IF Len(a) # Len(b) THEN Len(a) > Len(b) ELSE BytesLess(b, a)

InRange(key, start, end) ==
    /\ (Greater(key, start) \/ key = start)
    /\ (Less(key, end) \/ key = end)

(* The callback ScanRangeOptimized hands to Scan: collect a key in range,  *)
(* stop the traversal with the sentinel above the range.                   *)
ScanRangeVisit(acc, key, value, start, end) ==
    IF InRange(key, start, end)
    THEN [acc EXCEPT !.keys = Append(acc.keys, key),
                     !.values = [k \in DOMAIN acc.values \cup {key} |->
                                    IF k = key THEN value ELSE acc.values[k]]]
    ELSE IF Greater(key, end)
    THEN [acc EXCEPT !.err = "ErrExceedEndRange"]
    ELSE acc

(* Bitcask.Scan under that callback: the index in ascending order, every   *)
(* entry read from its segment; the first error ends the traversal.        *)
RECURSIVE ScanLoop(_, _, _, _, _)
ScanLoop(e, keys, acc, start, end) ==
    IF keys = <<>> \/ acc.err # "" THEN acc
    ELSE IF ~(e.memTable[Head(keys)].FileId = e.fileId
              \/ e.memTable[Head(keys)].FileId \in e.oldWal)
            \/ e.memTable[Head(keys)].FileId \notin DOMAIN e.files
    THEN [acc EXCEPT !.err = "file not found"]
    ELSE IF ~ReadPos(e.files[e.memTable[Head(keys)].FileId], e.memTable[Head(keys)]).ok
    THEN [acc EXCEPT !.err = "read"]
    ELSE ScanLoop(e, Tail(keys),
                  ScanRangeVisit(acc,
                      ReadPos(e.files[e.memTable[Head(keys)].FileId],
                              e.memTable[Head(keys)]).rec.Key,
                      ReadPos(e.files[e.memTable[Head(keys)].FileId],
                              e.memTable[Head(keys)]).rec.Value,
                      start, end),
                  start, end)

(* The tail of ScanRangeOptimized: the collected keys sorted by the        *)
(* comparator, cut at limit when limit > 0.                                *)
RECURSIVE ScanResults(_, _, _)
ScanResults(sorted, values, limit) ==
    IF sorted = <<>> THEN <<>>
    ELSE IF limit = 1 THEN << <<Head(sorted), values[Head(sorted)]>> >>
    ELSE << <<Head(sorted), values[Head(sorted)]>> >>
         \o ScanResults(Tail(sorted), values, IF limit = 0 THEN 0 ELSE limit - 1)

ScanRangeFinish(acc, limit) ==
    IF acc.err \notin {"", "ErrReachLimit", "ErrExceedEndRange"}
    THEN [err |-> acc.err, results |-> <<>>]
    ELSE [err |-> "",
          results |-> ScanResults(Ascend({acc.keys[i] : i \in 1..Len(acc.keys)}),
                                  acc.values, limit)]

ScanRangeOptimized(e, start, end, limit) ==
    ScanRangeFinish(ScanLoop(e, Ascend(DOMAIN e.memTable),
                             [err |-> "", keys |-> <<>>, values |-> [k \in {} |-> <<>>]],
                             start, end),
                    limit)

----------------------------------------------------------------------------
(* Batch: the engine side of a commit *)

putTxnBegin(e, key, txnId) ==
    WalWrite(tryRotate(e), NewTxnBegin(EncodeTxnId(txnId, key)))

putTxnCommit(e, key, txnId) ==
    WalWrite(tryRotate(e), NewTxnCommit(EncodeTxnId(txnId, key)))

putTxn(e, key, value, txnId) ==
    LET r == tryRotate(e)
        rec == NewTxnRecord(EncodeTxnId(txnId, key), value)
        pos == WalWritePos(r, rec)
        w == WalWrite(r, rec)
    IN  [w EXCEPT !.memTable = IndexPut(w.memTable, key, pos)]

deleteTxn(e, key, txnId) ==
    IF key \notin DOMAIN e.memTable THEN e
    ELSE LET r == tryRotate(e)
             w == WalWrite(r, NewTxnRecord(EncodeTxnId(txnId, key), Nil))
         IN  [w EXCEPT !.memTable = IndexDelete(w.memTable, key)]

(* The loop of Batch.Commit over b.keys, for the first n entries. *)
RECURSIVE CommitOps(_, _, _)
CommitOps(e, b, n) ==
    IF n = 0 THEN e
    ELSE LET p == CommitOps(e, b, n - 1)
             key == b.keys[n]
         IN  IF key \notin DOMAIN b.mp THEN p
             ELSE IF b.mp[key] = Nil THEN deleteTxn(p, key, b.txnId)
             ELSE putTxn(p, key, b.mp[key], b.txnId)

BatchCommit(e, b) ==
    putTxnCommit(CommitOps(putTxnBegin(e, TxnBeginKey, b.txnId), b, Len(b.keys)),
                 TxnCommitKey, b.txnId)

----------------------------------------------------------------------------
(* Recovery: Wal.ReadAll replays one segment file into the index.  The     *)
(* transaction buffer, the in-transaction flag and the current txn id are  *)
(* locals of ReadAll, so they start fresh for every file.                  *)

NoTxnData == [t \in {} |-> <<>>]

TxnDataOf(batchData, txnId) ==
    IF txnId \in DOMAIN batchData THEN batchData[txnId] ELSE <<>>

TxnDataAppend(batchData, txnId, d) ==
    [t \in DOMAIN batchData \cup {txnId} |->
        IF t = txnId THEN Append(TxnDataOf(batchData, txnId), d) ELSE batchData[t]]

TxnDataDelete(batchData, txnId) ==
    [t \in DOMAIN batchData \ {txnId} |-> batchData[t]]

RECURSIVE ApplyTxnData(_, _)
ApplyTxnData(memTable, data) ==
    IF data = <<>> THEN memTable
    ELSE LET d == Head(data)
             m == IF d.rec.RecordType = RecordTypeTxnPut
                  THEN IndexPut(memTable, d.rec.Key, d.pos)
                  ELSE IF d.rec.RecordType = RecordTypeTxnDelete
                  THEN IndexDelete(memTable, d.rec.Key)
                  ELSE memTable
         IN  ApplyTxnData(m, Tail(data))

(* A faulty updatedFunc that does not remove the key of a standalone       *)
(* Delete record from the index: a deleted key would come back on reopen.  *)
updatedFuncKeepsDeleted(st, rec, pos) ==
    IF rec.RecordType = RecordTypeBegin
    THEN [st EXCEPT !.txnFlag = TRUE, !.curTxnId = DecodeTxnId(rec.Key)[1]]
    ELSE IF st.txnFlag
    THEN st
    ELSE IF rec.RecordType = RecordTypePut
         THEN [st EXCEPT !.memTable = IndexPut(st.memTable, rec.Key, pos)]
         ELSE st

(* updatedFunc of ReadAll; st carries memTable, dbTxnId and the locals. *)
updatedFunc(st, rec, pos) ==
    IF rec.RecordType = RecordTypeBegin
    THEN [st EXCEPT !.txnFlag = TRUE, !.curTxnId = DecodeTxnId(rec.Key)[1]]
    ELSE IF st.txnFlag
    THEN IF rec.RecordType \in {RecordTypeTxnPut, RecordTypeTxnDelete}
         THEN LET d == DecodeTxnId(rec.Key)
              IN  IF d[1] # st.curTxnId THEN [st EXCEPT !.err = TRUE]
                  ELSE [st EXCEPT !.batchData =
                           TxnDataAppend(st.batchData, d[1],
                                         [rec |-> [rec EXCEPT !.Key = d[2]], pos |-> pos])]
         ELSE IF rec.RecordType = RecordTypeTxnCommit
         THEN LET txnId == DecodeTxnId(rec.Key)[1]
              IN  IF txnId # st.curTxnId THEN [st EXCEPT !.err = TRUE]
                  ELSE [st EXCEPT
                          !.memTable = ApplyTxnData(st.memTable, TxnDataOf(st.batchData, txnId)),
                          !.batchData = TxnDataDelete(st.batchData, txnId),
                          !.dbTxnId = st.curTxnId,
                          !.curTxnId = 0,
                          !.txnFlag = FALSE]
         ELSE st
    ELSE IF rec.RecordType = RecordTypeDelete
         THEN [st EXCEPT !.memTable = IndexDelete(st.memTable, rec.Key)]
         ELSE IF rec.RecordType = RecordTypePut
         THEN [st EXCEPT !.memTable = IndexPut(st.memTable, rec.Key, pos)]
         ELSE st

(* The parse loop of ReadAll over the records of one file, from record i   *)
(* at byte offset off.                                                     *)
RECURSIVE ReadLoop(_, _, _, _, _)
ReadLoop(st, recs, fileId, i, off) ==
    IF i > Len(recs) \/ st.err THEN st
    ELSE LET recordLength == EncodedLen(recs[i])
             rec == newRecord(recs[i].Key, recs[i].Value, recs[i].RecordType)
         IN  ReadLoop(updatedFunc(st, rec, NewPos(fileId, off, recordLength)),
                      recs, fileId, i + 1, off + recordLength)

(* The parse loop of ReadAll over the bytes b of a file, from byte offset. *)
(* A record whose stored CRC differs from the computed one is reported and *)
(* processed like any other.  DecodeTxnId of a key shorter than the txn id *)
(* prefix is a slice out of range: the open does not return.               *)
RECURSIVE ParseLoop(_, _, _, _)
ParseRecord(st, b, fileId, offset, recordType, keyLength, valueLength) ==
    IF keyLength > MaxKeyLength \/ valueLength > MaxValueLength THEN st
    ELSE IF offset + HeaderLen + keyLength + valueLength + CrcLen > Len(b) THEN st
    ELSE IF keyLength < TxnIdLen
            /\ \/ recordType = RecordTypeBegin
               \/ st.txnFlag /\ recordType \in {RecordTypeTxnPut, RecordTypeTxnDelete,
                                                RecordTypeTxnCommit}
    THEN [st EXCEPT !.err = TRUE]
    ELSE ParseLoop(
             updatedFunc(st,
                         newRecord(SubSeq(b, offset + HeaderLen + 1,
                                          offset + HeaderLen + keyLength),
                                   SubSeq(b, offset + HeaderLen + keyLength + 1,
                                          offset + HeaderLen + keyLength + valueLength),
                                   recordType),
                         NewPos(fileId, offset,
                                HeaderLen + keyLength + valueLength + CrcLen)),
             b, fileId, offset + HeaderLen + keyLength + valueLength + CrcLen)

ParseLoop(st, b, fileId, offset) ==
    IF offset >= Len(b) \/ st.err THEN st
    ELSE IF offset + HeaderLen > Len(b) THEN st
    ELSE ParseRecord(st, b, fileId, offset, b[offset + 1],
                     Uint32(SubSeq(b, offset + 2, offset + 5)),
                     Uint32(SubSeq(b, offset + 6, offset + 9)))

ReadAllStart(memTable, dbTxnId) ==
    [memTable |-> memTable, dbTxnId |-> dbTxnId, batchData |-> NoTxnData,
     txnFlag |-> FALSE, curTxnId |-> 0, err |-> FALSE]

(* Wal.ReadAll.  On a file of records Encode wrote the parse loop visits   *)
(* the records one by one; otherwise it runs over the bytes.               *)
ReadAll(recs, fileId, memTable, dbTxnId) ==
    IF HasDamage(recs)
    THEN ParseLoop(ReadAllStart(memTable, dbTxnId), FileBytes(recs), fileId, 0)
    ELSE ReadLoop(ReadAllStart(memTable, dbTxnId), recs, fileId, 1, 0)

----------------------------------------------------------------------------
(* Hint snapshot *)

NoHint == [exists |-> FALSE, txnId |-> 0, entries |-> <<>>, cut |-> -1]

RECURSIVE HintEntries(_, _)
HintEntries(memTable, keys) ==
    IF keys = <<>> THEN <<>>
    ELSE <<[key |-> Head(keys), pos |-> memTable[Head(keys)]]>>
         \o HintEntries(memTable, Tail(keys))

(* Bitcask.Hint: the txn id, then one entry per index key in index order. *)
HintOf(memTable, tid) ==
    [exists |-> TRUE, txnId |-> tid, cut |-> -1,
     entries |-> HintEntries(memTable, Ascend(DOMAIN memTable))]

(* Bitcask.LoadHint: seeds txnId, the index and fileId from the hint. *)
RECURSIVE LoadEntries(_, _)
LoadEntries(st, entries) ==
    IF entries = <<>> THEN st
    ELSE LET h == Head(entries)
         IN  LoadEntries([st EXCEPT
                            !.memTable = IndexPut(st.memTable, h.key, h.pos),
                            !.fileId = IF h.pos.FileId >= st.fileId
                                       THEN h.pos.FileId + 1 ELSE st.fileId],
                         Tail(entries))

(* The bytes Bitcask.Hint writes: the txn id, then per entry the key       *)
(* length, file id, offset and length as big-endian uint32 and the key.    *)
RECURSIVE HintBytes(_, _)
HintBytes(tid, entries) ==
    IF entries = <<>> THEN PutUint32(tid)
    ELSE HintBytes(tid, SubSeq(entries, 1, Len(entries) - 1))
         \o PutUint32(Len(entries[Len(entries)].key))
         \o PutUint32(entries[Len(entries)].pos.FileId)
         \o PutUint32(entries[Len(entries)].pos.Offset)
         \o PutUint32(entries[Len(entries)].pos.Length)
         \o entries[Len(entries)].key

(* The read loop of Bitcask.LoadHint on the bytes b after the txn id: EOF  *)
(* at the key length ends the loop, any other short read is an error.      *)
RECURSIVE ReadEntries(_, _)
ReadEntries(st, b) ==
    IF b = <<>> THEN st
    ELSE IF Len(b) < 16 \/ Len(b) < 16 + Uint32(SubSeq(b, 1, 4))
    THEN [st EXCEPT !.err = TRUE]
    ELSE ReadEntries(
             [st EXCEPT
                !.memTable = IndexPut(st.memTable,
                                 SubSeq(b, 17, 16 + Uint32(SubSeq(b, 1, 4))),
                                 NewPos(Uint32(SubSeq(b, 5, 8)), Uint32(SubSeq(b, 9, 12)),
                                        Uint32(SubSeq(b, 13, 16)))),
                !.fileId = IF Uint32(SubSeq(b, 5, 8)) >= st.fileId
                           THEN Uint32(SubSeq(b, 5, 8)) + 1 ELSE st.fileId],
             SubSeq(b, 17 + Uint32(SubSeq(b, 1, 4)), Len(b)))

(* Bitcask.LoadHint on a hint file holding the bytes b. *)
LoadHintBytes(st, b) ==
    IF Len(b) < 4 THEN [st EXCEPT !.err = TRUE]
    ELSE ReadEntries([st EXCEPT !.txnId = Uint32(SubSeq(b, 1, 4))],
                     SubSeq(b, 5, Len(b)))

LoadHint(st, h) ==
    IF ~h.exists THEN st
    ELSE IF h.cut >= 0
    THEN LoadHintBytes(st, SubSeq(HintBytes(h.txnId, h.entries), 1, h.cut))
    ELSE LoadEntries([st EXCEPT !.txnId = h.txnId], h.entries)

----------------------------------------------------------------------------
(* Open *)

RECURSIVE SortIds(_)
SortIds(ids) ==
    IF ids = {} THEN <<>>
    ELSE LET m == CHOOSE x \in ids : \A y \in ids : x <= y
         IN  <<m>> \o SortIds(ids \ {m})

(* One pass of the loop of loadWalFiles: the result r of ReadAll on the    *)
(* file goes into the engine.                                              *)
Replayed(st, r) ==
    [st EXCEPT !.memTable = r.memTable, !.txnId = r.dbTxnId, !.err = r.err]

(* One pass of the loop of loadWalFiles: the handle of file id becomes the *)
(* active segment when it is the last one, a sealed segment otherwise.     *)
Attach(st, id, isLast, size) ==
    IF st.err THEN st
    ELSE IF isLast
    THEN [st EXCEPT !.hasActive = TRUE, !.fileId = id, !.offset = size]
    ELSE [st EXCEPT !.oldWal = st.oldWal \cup {id}]

(* The loop of loadWalFiles over bc.fileIds, from position i. *)
RECURSIVE LoadLoop(_, _, _)
LoadLoop(st, loadHint, i) ==
    IF i > Len(st.fileIds) \/ st.err THEN st
    ELSE LoadLoop(
             Attach(IF loadHint
                    THEN Replayed(st, ReadAll(st.files[st.fileIds[i]], st.fileIds[i],
                                              st.memTable, st.txnId))
                    ELSE st,
                    st.fileIds[i],
                    i = Len(st.fileIds),
                    IF loadHint THEN SizeOf(st.files[st.fileIds[i]]) ELSE 0),
             loadHint, i + 1)

loadWalFiles(st, loadHint) ==
    IF DOMAIN st.files = {} THEN st
    ELSE LoadLoop([st EXCEPT !.fileIds = st.fileIds \o SortIds(DOMAIN st.files)],
                  loadHint, 1)

(* NewBitcask: the engine before anything is loaded. *)
Unloaded(f) ==
    [files |-> f, memTable |-> EmptyIndex, fileId |-> 0, offset |-> 0,
     oldWal |-> {}, fileIds |-> <<>>, txnId |-> 0, hasActive |-> FALSE, err |-> FALSE]

(* NewBitcask: without an active segment after loadWalFiles, create one. *)
EnsureActive(st) ==
    IF st.err \/ st.hasActive THEN st
    ELSE [st EXCEPT !.files = NewWal(st.files, st.fileId), !.hasActive = TRUE]

(* NewBitcask: a non-zero txn id is advanced by one. *)
NextTxnId(st) ==
    IF st.err THEN st
    ELSE [st EXCEPT !.txnId = IF st.txnId # 0 THEN st.txnId + 1 ELSE 0]

(* NewBitcask on the directory content (f, h) with conf.LoadHint = loadHint *)
NewBitcask(f, h, loadHint) ==
    NextTxnId(EnsureActive(loadWalFiles(LoadHint(Unloaded(f), h), loadHint)))

----------------------------------------------------------------------------
(* Merge *)

(* The traversal of Merge: rewrite every index key, in index order. *)
RECURSIVE MergeLoop(_, _)
MergeLoop(e, keys) ==
    IF keys = <<>> \/ e.status # "ok" THEN e
    ELSE LET key == Head(keys)
             pos == e.memTable[key]
         IN  IF ~(pos.FileId = e.fileId \/ pos.FileId \in e.oldWal)
                \/ pos.FileId \notin DOMAIN e.files
             THEN [e EXCEPT !.status = "error"]
             ELSE LET r == ReadPos(e.files[pos.FileId], pos)
                  IN  IF ~r.ok THEN [e EXCEPT !.status = "error"]
                      ELSE MergeLoop(BitcaskPut(e, key, r.rec.Value), Tail(keys))

(* The deletion loop of Merge; a snapshotted id without a handle in oldWal *)
(* dereferences a nil handle (panic).                                      *)
RECURSIVE DeleteOld(_, _)
DeleteOld(e, ids) ==
    IF ids = <<>> \/ e.status # "ok" THEN e
    ELSE LET id == Head(ids)
         IN  IF id \notin e.oldWal THEN [e EXCEPT !.status = "panic"]
             ELSE DeleteOld([e EXCEPT
                               !.files = [i \in DOMAIN e.files \ {id} |-> e.files[i]],
                               !.oldWal = e.oldWal \ {id}],
                            Tail(ids))

(* The traversal of Merge when the visit of the (n+1)-th key fails: the    *)
(* read of the old record (ReadPos) or, with rewrite, the append of        *)
(* Bitcask.Put after its tryRotate.  ForeachUnSafe stops at the first      *)
(* error.                                                                  *)
RECURSIVE MergeLoopFail(_, _, _, _)
MergeLoopFail(e, keys, n, rewrite) ==
    IF keys = <<>> \/ e.status # "ok" THEN e
    ELSE LET key == Head(keys)
             pos == e.memTable[key]
         IN  IF ~(pos.FileId = e.fileId \/ pos.FileId \in e.oldWal)
                \/ pos.FileId \notin DOMAIN e.files
             THEN [e EXCEPT !.status = "error"]
             ELSE LET r == ReadPos(e.files[pos.FileId], pos)
                  IN  IF ~r.ok THEN [e EXCEPT !.status = "error"]
                      ELSE IF n = 0
                      THEN [(IF rewrite THEN tryRotate(e) ELSE e) EXCEPT
                               !.status = "error"]
                      ELSE MergeLoopFail(BitcaskPut(e, key, r.rec.Value),
                                         Tail(keys), n - 1, rewrite)

BitcaskMergeFail(e, n, rewrite) ==
    LET oldFileIds == e.fileIds
        r == mustRotate([e EXCEPT !.fileIds = <<>>])
        m == MergeLoopFail(r, Ascend(DOMAIN r.memTable), n, rewrite)
    IN  DeleteOld(m, oldFileIds)

BitcaskMerge(e) ==
    LET oldFileIds == e.fileIds
        r == mustRotate([e EXCEPT !.fileIds = <<>>])
        m == MergeLoop(r, Ascend(DOMAIN r.memTable))
    IN  DeleteOld(m, oldFileIds)

----------------------------------------------------------------------------
(* State *)

VARIABLES
    files,      \* the WAL directory: segment id -> encoded records
    hint,       \* the hint file keys.hint (NoHint when absent)
    conf,       \* the configuration the engine is opened with
    isOpen,     \* an engine is running on the directory
    memTable,   \* Bitcask.memTable
    fileId,     \* Bitcask.fileId, the id of activeWal
    offset,     \* activeWal.offset
    oldWal,     \* Bitcask.oldWal (ids of the sealed handles)
    fileIds,    \* Bitcask.fileIds
    txnId,      \* Bitcask.txnId
    batch,      \* the client's Batch (NoBatch when none)
    cnt,        \* operations performed so far, by kind
    limit,      \* the budget of the specification, by kind
    last,       \* the last operation
    ended,      \* how the previous session ended
    expect,     \* what get must return for every key after the last operation
    committed,  \* the buffer of the batch committed by the last operation
    second,     \* another engine is live on the same directory
    threads     \* the concurrent callers of the engine: position and locals

vars == <<files, hint, conf, isOpen, memTable, fileId, offset, oldWal, fileIds, txnId,
          batch, cnt, limit, last, ended, expect, committed, second, threads>>

Threads == 1..NumThreads

(* A caller that is in no call: puts holds what its returned puts wrote.  *)
(* For a caller of Merge, seen holds the keys the traversal has visited,   *)
(* ids the snapshot oldFileIds, done the result of its last Merge, and     *)
(* wrote what get must return for the keys written by calls that returned  *)
(* since that Merge began.                                                 *)
IdleThread ==
    [pc |-> "idle", key |-> Nil, value |-> Nil, wal |-> 0, pos |-> NewPos(0, 0, 0),
     seq |-> 0, txnId |-> 0, puts |-> [k \in {} |-> Nil],
     seen |-> {}, ids |-> <<>>, wrote |-> [k \in {} |-> Nil], done |-> "",
     call |-> "", inside |-> FALSE, locks |-> <<>>, wait |-> {},
     rec |-> Encode(NewRecord(<<>>, <<>>)), idx |-> "", ret |-> "", ops |-> <<>>,
     calls |-> 0]

NoOps == [k \in {} |-> Nil]

NoBatch == [active |-> FALSE, txnId |-> 0, mp |-> [k \in {} |-> Nil], keys |-> <<>>]

Eng == Engine(conf, files, memTable, fileId, offset, oldWal, fileIds)

VisibleOf(e) == [k \in Keys |-> BitcaskGet(e, k)]

Visible == VisibleOf(Eng)

Install(e) ==
    /\ files' = e.files
    /\ memTable' = e.memTable
    /\ fileId' = e.fileId
    /\ offset' = e.offset
    /\ oldWal' = e.oldWal
    /\ fileIds' = e.fileIds

(* The process is gone: only the directory content remains. *)
Stopped ==
    /\ isOpen' = FALSE
    /\ memTable' = EmptyIndex
    /\ fileId' = 0
    /\ offset' = 0
    /\ oldWal' = {}
    /\ fileIds' = <<>>
    /\ txnId' = 0
    /\ batch' = NoBatch

Limit(w, c, m, h, o, b) ==
    [writes |-> w, commits |-> c, merges |-> m, hints |-> h, opens |-> o,
     batchops |-> b]

ConfigLoad(maxFileSize, batchSize, loadHint) ==
    [MaxFileSize |-> maxFileSize, BatchSize |-> batchSize, LoadHint |-> loadHint]

(* NewConfig: load_hint is true unless the caller changes it. *)
ConfigWith(maxFileSize, batchSize) == ConfigLoad(maxFileSize, batchSize, TRUE)

Config(maxFileSize) == ConfigWith(maxFileSize, BatchSize)

(* The state with the engine r running on the directory and the client's  *)
(* batch b.                                                                *)
StartedWith(r, lim, c, b) ==
    /\ files = r.files
    /\ hint = NoHint
    /\ conf = c
    /\ isOpen = TRUE
    /\ memTable = r.memTable
    /\ fileId = r.fileId
    /\ offset = r.offset
    /\ oldWal = r.oldWal
    /\ fileIds = r.fileIds
    /\ txnId = r.txnId
    /\ batch = b
    /\ cnt = Limit(0, 0, 0, 0, 0, 0)
    /\ limit = lim
    /\ last = "open"
    /\ ended = "fresh"
    /\ expect = [k \in Keys |-> NotFound]
    /\ committed = NoOps
    /\ second = FALSE
    /\ threads = [t \in Threads |-> IdleThread]

(* The state with the engine r running on the directory. *)
Started(r, lim, c) == StartedWith(r, lim, c, NoBatch)

(* A fresh engine opened on an empty directory. *)
InitWith(lim, c) == Started(NewBitcask([i \in {} |-> <<>>], NoHint, TRUE), lim, c)

Init ==
    InitWith(Limit(MaxWrites, MaxCommits, MaxMerges, MaxHints, MaxOpens, MaxBatchOps),
             Config(MaxFileSize))

----------------------------------------------------------------------------
(* Operations *)

Can(kind) == cnt[kind] < limit[kind]

Count(kind) == cnt' = [cnt EXCEPT ![kind] = @ + 1] /\ UNCHANGED limit

NoCount == UNCHANGED <<cnt, limit>>

SameConf == UNCHANGED conf

(* A step of the single caller of the single engine: no other engine       *)
(* appears or goes away and no concurrent caller moves.                    *)
Solo == UNCHANGED <<second, threads>>

Put(key, value) ==
    /\ isOpen /\ Can("writes")
    /\ SameConf /\ Solo
    /\ committed' = NoOps
    /\ Install(BitcaskPut(Eng, key, value))
    /\ expect' = [Visible EXCEPT ![key] = <<Bytes(value), TRUE>>]
    /\ Count("writes")
    /\ last' = "put"
    /\ UNCHANGED <<hint, isOpen, txnId, batch, ended>>

Delete(key) ==
    /\ isOpen /\ Can("writes")
    /\ SameConf /\ Solo
    /\ committed' = NoOps
    /\ Install(BitcaskDelete(Eng, key))
    /\ expect' = [Visible EXCEPT ![key] = NotFound]
    /\ Count("writes")
    /\ last' = "delete"
    /\ UNCHANGED <<hint, isOpen, txnId, batch, ended>>

NewBatch ==
    /\ isOpen /\ ~batch.active /\ Can("commits")
    /\ SameConf /\ Solo
    /\ committed' = NoOps
    /\ batch' = [active |-> TRUE, txnId |-> txnId, mp |-> [k \in {} |-> Nil], keys |-> <<>>]
    /\ expect' = Visible
    /\ last' = "newbatch"
    /\ NoCount
    /\ UNCHANGED <<files, hint, isOpen, memTable, fileId, offset, oldWal, fileIds,
                   txnId, ended>>

MapPut(mp, key, value) ==
    [k \in DOMAIN mp \cup {key} |-> IF k = key THEN value ELSE mp[k]]

MapDelete(mp, key) == [k \in DOMAIN mp \ {key} |-> mp[k]]

(* Batch.Put; exp is what get is expected to return from now on. *)
BatchPutExpecting(key, value, exp) ==
    /\ isOpen /\ batch.active /\ Len(batch.keys) < limit.batchops
    /\ SameConf /\ Solo
    /\ committed' = NoOps
    /\ batch' = [batch EXCEPT !.mp = MapPut(batch.mp, key, value),
                              !.keys = Append(batch.keys, key)]
    /\ expect' = exp
    /\ last' = "batchput"
    /\ NoCount
    /\ UNCHANGED <<files, hint, isOpen, memTable, fileId, offset, oldWal, fileIds,
                   txnId, ended>>

(* Batch.Delete; exp is what get is expected to return from now on. *)
BatchDeleteExpecting(key, exp) ==
    /\ isOpen /\ batch.active /\ Len(batch.keys) < limit.batchops
    /\ SameConf /\ Solo
    /\ committed' = NoOps
    /\ batch' = IF ~BitcaskGet(Eng, key)[2]
                THEN [batch EXCEPT !.mp = MapDelete(batch.mp, key)]
                ELSE [batch EXCEPT !.mp = MapPut(batch.mp, key, Nil),
                                   !.keys = Append(batch.keys, key)]
    /\ expect' = exp
    /\ last' = "batchdelete"
    /\ NoCount
    /\ UNCHANGED <<files, hint, isOpen, memTable, fileId, offset, oldWal, fileIds,
                   txnId, ended>>

BatchPut(key, value) == BatchPutExpecting(key, value, Visible)

BatchDelete(key) == BatchDeleteExpecting(key, Visible)

(* What get must return after a commit of the buffer mp from the visible   *)
(* store vis: a nil entry is a buffered delete.                            *)
AfterBatch(vis, mp) ==
    [k \in Keys |-> IF k \notin DOMAIN mp THEN vis[k]
                    ELSE IF mp[k] = Nil THEN NotFound
                    ELSE <<mp[k], TRUE>>]

(* The size check of Batch.Commit, with > in place of >=. *)
SizeExceededStrict(b, c) == Cardinality(DOMAIN b.mp) > c.BatchSize

(* The size check of Batch.Commit: len(b.mp) >= conf.BatchSize. *)
SizeExceeded(b, c) == Cardinality(DOMAIN b.mp) >= c.BatchSize

Commit ==
    /\ isOpen /\ batch.active /\ Can("commits")
    /\ SameConf /\ Solo
    /\ IF SizeExceeded(batch, conf)
       THEN /\ last' = "commiterror"
            /\ expect' = Visible
            /\ committed' = NoOps
            /\ UNCHANGED <<files, memTable, fileId, offset, oldWal, fileIds, txnId, batch>>
       ELSE IF DOMAIN batch.mp = {}
       THEN /\ last' = "commitempty"
            /\ expect' = Visible
            /\ committed' = NoOps
            /\ UNCHANGED <<files, memTable, fileId, offset, oldWal, fileIds, txnId, batch>>
       ELSE /\ Install(BatchCommit(Eng, batch))
            /\ txnId' = txnId + 1
            /\ batch' = NoBatch
            /\ last' = "commit"
            /\ expect' = AfterBatch(Visible, batch.mp)
            /\ committed' = batch.mp
    /\ Count("commits")
    /\ UNCHANGED <<hint, isOpen, ended>>

(* The process dies during Commit after TxnBegin and the first n entries   *)
(* of the buffer were written, before TxnCommit.                           *)
CommitCrash(n) ==
    /\ isOpen /\ batch.active /\ Can("commits")
    /\ SameConf /\ Solo
    /\ committed' = NoOps
    /\ ~SizeExceeded(batch, conf)
    /\ DOMAIN batch.mp # {}
    /\ n \in 0..Len(batch.keys)
    /\ files' = CommitOps(putTxnBegin(Eng, TxnBeginKey, batch.txnId), batch, n).files
    /\ Stopped
    /\ expect' = Visible
    /\ Count("commits")
    /\ last' = "crash"
    /\ ended' = "commitcrash"
    /\ UNCHANGED hint

(* Whether entry i of b.keys makes Batch.Commit write a record on engine   *)
(* e: deleteTxn of a key without index entry returns before any write.     *)
WritesRecord(e, b, i) ==
    /\ b.keys[i] \in DOMAIN b.mp
    /\ b.mp[b.keys[i]] = Nil => b.keys[i] \in DOMAIN e.memTable

(* Batch.Commit returns an error: TxnBegin and the first n entries of the  *)
(* buffer went through and the next write, of an entry's record or of      *)
(* TxnCommit, failed in the file.  The engine keeps running.               *)
CommitFail(n) ==
    /\ isOpen /\ batch.active /\ Can("commits")
    /\ SameConf /\ Solo
    /\ ~SizeExceeded(batch, conf)
    /\ DOMAIN batch.mp # {}
    /\ n \in 0..Len(batch.keys)
    /\ n < Len(batch.keys) =>
           WritesRecord(CommitOps(putTxnBegin(Eng, TxnBeginKey, batch.txnId), batch, n),
                        batch, n + 1)
    /\ Install(CommitOps(putTxnBegin(Eng, TxnBeginKey, batch.txnId), batch, n))
    /\ committed' = NoOps
    /\ expect' = Visible
    /\ last' = "commitfail"
    /\ Count("commits")
    /\ UNCHANGED <<hint, isOpen, txnId, batch, ended>>

Hint ==
    /\ isOpen /\ Can("hints")
    /\ SameConf /\ Solo
    /\ UNCHANGED committed
    /\ hint' = HintOf(memTable, txnId)
    /\ expect' = Visible
    /\ last' = "hint"
    /\ Count("hints")
    /\ UNCHANGED <<files, isOpen, memTable, fileId, offset, oldWal, fileIds, txnId,
                   batch, ended>>

(* The outcome e of Bitcask.Merge: a panic ends the process. *)
Merged(e) ==
    IF e.status = "panic"
    THEN /\ files' = e.files
         /\ Stopped
         /\ last' = "mergepanic"
         /\ ended' = "panic"
         /\ UNCHANGED hint
    ELSE /\ Install(e)
         /\ last' = IF e.status = "ok" THEN "merge" ELSE "mergeerror"
         /\ UNCHANGED <<hint, isOpen, txnId, batch, ended>>

Merge ==
    /\ isOpen /\ Can("merges")
    /\ SameConf /\ Solo
    /\ committed' = NoOps
    /\ Merged(BitcaskMerge(Eng))
    /\ expect' = Visible
    /\ Count("merges")

(* Bitcask.Merge with an I/O error at the visit of the (n+1)-th index key. *)
MergeFail(n, rewrite) ==
    /\ isOpen /\ Can("merges")
    /\ SameConf /\ Solo
    /\ n < Cardinality(DOMAIN memTable)
    /\ committed' = NoOps
    /\ Merged(BitcaskMergeFail(Eng, n, rewrite))
    /\ expect' = Visible
    /\ Count("merges")

(* Bitcask.Close: write the hint, close the segments. *)
Close ==
    /\ isOpen /\ Can("opens")
    /\ SameConf /\ Solo
    /\ UNCHANGED committed
    /\ hint' = HintOf(memTable, txnId)
    /\ Stopped
    /\ expect' = IF last = "merge" THEN expect ELSE Visible
    /\ ended' = IF last = "merge" THEN "mergeclose"
                ELSE IF last = "commit" THEN "commitclose"
                ELSE "close"
    /\ last' = "close"
    /\ NoCount
    /\ UNCHANGED files

(* The process dies between two operations. *)
Crash ==
    /\ isOpen /\ Can("opens")
    /\ SameConf /\ Solo
    /\ committed' = NoOps
    /\ Stopped
    /\ expect' = Visible
    /\ ended' = "crash"
    /\ last' = "crash"
    /\ NoCount
    /\ UNCHANGED <<files, hint>>

(* The outcome r of NewBitcask: an engine, or an error and no engine. *)
Opened(r) ==
    IF r.err
    THEN /\ last' = "openerror"
         /\ UNCHANGED <<files, isOpen, memTable, fileId, offset, oldWal, fileIds, txnId>>
    ELSE /\ Install(r)
         /\ txnId' = r.txnId
         /\ isOpen' = TRUE
         /\ last' = "open"

Open ==
    /\ ~isOpen /\ Can("opens")
    /\ SameConf /\ Solo
    /\ UNCHANGED committed
    /\ Opened(NewBitcask(files, hint, conf.LoadHint))
    /\ Count("opens")
    /\ UNCHANGED <<hint, batch, ended, expect>>

(* The outcome r of a NewBitcask called on the directory while an engine   *)
(* is running on it.  NewBitcask builds the flock object on bitcask.lock   *)
(* and never locks it, so the call is decided by loading alone.            *)
SecondOpened(r) ==
    IF r.err
    THEN UNCHANGED <<files, second>>
    ELSE /\ files' = r.files
         /\ second' = TRUE

OpenSecond ==
    /\ isOpen /\ ~second
    /\ SameConf
    /\ SecondOpened(NewBitcask(files, hint, conf.LoadHint))
    /\ last' = "opensecond"
    /\ NoCount
    /\ UNCHANGED <<hint, isOpen, memTable, fileId, offset, oldWal, fileIds, txnId,
                   batch, ended, expect, committed, threads>>

----------------------------------------------------------------------------
(* Specifications *)

Next ==
    \/ \E k \in Keys, v \in Values : Put(k, v)
    \/ \E k \in Keys : Delete(k)
    \/ NewBatch
    \/ \E k \in Keys, v \in Values : BatchPut(k, v)
    \/ \E k \in Keys : BatchDelete(k)
    \/ Commit
    \/ \E n \in 0..limit.batchops : CommitCrash(n)
    \/ Hint
    \/ Merge
    \/ Close
    \/ Crash
    \/ Open

Spec == Init /\ [][Next]_vars

(* put, delete, close and reopen only *)
InitKV == InitWith(Limit(KVWrites, 0, 0, 0, KVOpens, 0), Config(KVFileSize))

NextKV ==
    \/ \E k \in Keys, v \in Values : Put(k, v)
    \/ \E k \in Keys : Delete(k)
    \/ Close
    \/ Open

SpecKV == InitKV /\ [][NextKV]_vars

(* put, delete, close, reopen, and a second open on the live directory *)
NextLock ==
    \/ \E k \in Keys, v \in Values : Put(k, v)
    \/ \E k \in Keys : Delete(k)
    \/ Close
    \/ Open
    \/ OpenSecond

(* Between two sessions the hint file loses its tail: its first n bytes    *)
(* remain.                                                                 *)
TruncateHint(n) ==
    /\ ~isOpen /\ hint.exists /\ hint.cut = -1
    /\ n \in 0..(Len(HintBytes(hint.txnId, hint.entries)) - 1)
    /\ SameConf /\ Solo
    /\ hint' = [hint EXCEPT !.cut = n]
    /\ last' = "truncate"
    /\ NoCount
    /\ UNCHANGED <<files, isOpen, memTable, fileId, offset, oldWal, fileIds, txnId,
                   batch, ended, expect, committed>>

(* put, delete, close, truncation of the hint file, reopen *)
NextTrunc ==
    \/ \E k \in Keys, v \in Values : Put(k, v)
    \/ \E k \in Keys : Delete(k)
    \/ Close
    \/ \E n \in 0..MaxHintBytes : TruncateHint(n)
    \/ Open

SpecTrunc == InitKV /\ [][NextTrunc]_vars

SpecLock == InitKV /\ [][NextLock]_vars

(* Between two sessions record i of segment id is damaged: its stored CRC  *)
(* or its key length is changed, or, for the last record of the file, the  *)
(* file is cut after the first cut bytes of the record.                    *)
DamageRecord(id, i, damage, cut) ==
    /\ ~isOpen
    /\ id \in DOMAIN files /\ i \in 1..Len(files[id])
    /\ \A j \in DOMAIN files : ~HasDamage(files[j])
    /\ damage = "torn" => (i = Len(files[id]) /\ cut < EncodedLen(files[id][i]))
    /\ damage # "torn" => cut = 1
    /\ SameConf /\ Solo
    /\ files' = [files EXCEPT ![id][i] = Damage(@, damage, cut)]
    /\ last' = "damage"
    /\ NoCount
    /\ UNCHANGED <<hint, isOpen, memTable, fileId, offset, oldWal, fileIds, txnId,
                   batch, ended, expect, committed>>

(* The process dies inside the append of Bitcask.Put, after the first cut  *)
(* bytes of the record reached the active segment.                         *)
PutCrash(key, value, cut) ==
    /\ isOpen /\ Can("writes")
    /\ cut < EncodedLen(Encode(NewRecord(key, value)))
    /\ SameConf /\ Solo
    /\ committed' = NoOps
    /\ files' = [tryRotate(Eng).files EXCEPT ![tryRotate(Eng).fileId] =
                    Append(@, Damage(Encode(NewRecord(key, value)), "torn", cut))]
    /\ Stopped
    /\ expect' = Visible
    /\ Count("writes")
    /\ last' = "crash"
    /\ ended' = "putcrash"
    /\ UNCHANGED hint

(* Bitcask.Put whose append fails inside Wal.write after cut bytes of the  *)
(* record reached the file: a short fp.Write, or with cut the whole length *)
(* a failed fp.Sync under AutoSync.  Wal.write returns before it advances  *)
(* w.offset and Put returns the error before it touches the index.         *)
PutFail(key, value, cut) ==
    /\ isOpen /\ Can("writes")
    /\ cut <= EncodedLen(Encode(NewRecord(key, value)))
    /\ SameConf /\ Solo
    /\ committed' = NoOps
    /\ Install([tryRotate(Eng) EXCEPT !.files[tryRotate(Eng).fileId] =
                   Append(@, IF cut = EncodedLen(Encode(NewRecord(key, value)))
                             THEN Encode(NewRecord(key, value))
                             ELSE Damage(Encode(NewRecord(key, value)), "torn", cut))])
    /\ expect' = Visible
    /\ Count("writes")
    /\ last' = "puterror"
    /\ UNCHANGED <<hint, isOpen, txnId, batch, ended>>

(* put and delete in one session, with appends that fail after their bytes *)
(* reached the file                                                        *)
NextAppendFail ==
    \/ \E k \in Keys, v \in Values \ {Nil} : Put(k, v)
    \/ \E k \in Keys : Delete(k)
    \/ \E k \in Keys, v \in Values \ {Nil}, cut \in 1..MaxCut + 1 : PutFail(k, v, cut)

SpecAppendFail == InitKV /\ [][NextAppendFail]_vars

(* put, delete, a crash between or inside appends, reopen *)
NextTorn ==
    \/ \E k \in Keys, v \in Values : Put(k, v)
    \/ \E k \in Keys : Delete(k)
    \/ \E k \in Keys, v \in Values, cut \in 1..MaxCut : PutCrash(k, v, cut)
    \/ Crash
    \/ Open

SpecTorn == InitKV /\ [][NextTorn]_vars

(* put, delete, crash, damage of one record, reopen *)
NextDamage ==
    \/ \E k \in Keys, v \in Values : Put(k, v)
    \/ \E k \in Keys : Delete(k)
    \/ Crash
    \/ \E id \in 0..KVWrites, i \in 1..KVWrites, cut \in 1..MaxCut,
          damage \in {"torn", "crc", "size"} : DamageRecord(id, i, damage, cut)
    \/ Open

SpecDamage == InitKV /\ [][NextDamage]_vars

(* put, delete, close, crash and reopen under either value of load_hint *)
InitLoad ==
    \E loadHint \in BOOLEAN :
        InitWith(Limit(KVWrites, 0, 0, 0, KVOpens, 0),
                 ConfigLoad(KVFileSize, BatchSize, loadHint))

NextLoad ==
    \/ \E k \in Keys, v \in Values : Put(k, v)
    \/ \E k \in Keys : Delete(k)
    \/ Close
    \/ Crash
    \/ Open

SpecLoad == InitLoad /\ [][NextLoad]_vars

----------------------------------------------------------------------------
(* Concurrent callers of one engine.  Bitcask.Put takes no engine lock:    *)
(* the size check of tryRotate, mustRotate (under bc.mu), the load of      *)
(* bc.activeWal, Wal.write (under the segment's w.mu) and memTable.Put     *)
(* (under the index lock) are separate steps of the calling thread.        *)

RECURSIVE NumRecords(_, _)
NumRecords(f, ids) ==
    IF ids = {} THEN 0
    ELSE Len(f[CHOOSE x \in ids : TRUE])
         + NumRecords(f, ids \ {CHOOSE x \in ids : TRUE})

Moves(t, th) == threads' = [threads EXCEPT ![t] = th]

At(t, pc) == isOpen /\ threads[t].pc = pc

ThreadStep ==
    /\ SameConf
    /\ last' = "thread"
    /\ UNCHANGED <<hint, isOpen, batch, ended, expect, committed, second>>

ThreadPut(t, key, value) ==
    /\ At(t, "idle") /\ Can("writes")
    /\ Moves(t, [threads[t] EXCEPT !.pc = "tryRotate", !.key = key, !.value = value])
    /\ Count("writes")
    /\ ThreadStep
    /\ UNCHANGED <<files, memTable, fileId, offset, oldWal, fileIds, txnId>>

ThreadTryRotate(t) ==
    /\ At(t, "tryRotate")
    /\ Moves(t, [threads[t] EXCEPT
                    !.pc = IF offset < conf.MaxFileSize THEN "load" ELSE "mustRotate"])
    /\ NoCount
    /\ ThreadStep
    /\ UNCHANGED <<files, memTable, fileId, offset, oldWal, fileIds, txnId>>

ThreadMustRotate(t) ==
    /\ At(t, "mustRotate")
    /\ Install(mustRotate(Eng))
    /\ Moves(t, [threads[t] EXCEPT !.pc = "load"])
    /\ NoCount
    /\ ThreadStep
    /\ UNCHANGED txnId

ThreadLoadWal(t) ==
    /\ At(t, "load")
    /\ Moves(t, [threads[t] EXCEPT !.pc = "write", !.wal = fileId])
    /\ NoCount
    /\ ThreadStep
    /\ UNCHANGED <<files, memTable, fileId, offset, oldWal, fileIds, txnId>>

(* Wal.write on the segment the thread loaded, which may have been sealed  *)
(* by a rotation since: each Wal tracks its own offset.                    *)
ThreadWrite(t) ==
    /\ At(t, "write")
    /\ files' = [files EXCEPT ![threads[t].wal] =
                    Append(@, Encode(NewRecord(threads[t].key, threads[t].value)))]
    /\ offset' = IF threads[t].wal = fileId
                 THEN offset + EncodedLen(Encode(NewRecord(threads[t].key, threads[t].value)))
                 ELSE offset
    /\ Moves(t, [threads[t] EXCEPT
                    !.pc = "index",
                    !.pos = NewPos(threads[t].wal,
                                   IF threads[t].wal = fileId THEN offset
                                   ELSE SizeOf(files[threads[t].wal]),
                                   EncodedLen(Encode(NewRecord(threads[t].key,
                                                               threads[t].value)))),
                    !.seq = NumRecords(files, DOMAIN files) + 1])
    /\ NoCount
    /\ ThreadStep
    /\ UNCHANGED <<memTable, fileId, oldWal, fileIds, txnId>>

(* memTable.Put, after which Put returns nil to the caller. *)
ThreadIndex(t) ==
    /\ At(t, "index")
    /\ memTable' = IndexPut(memTable, threads[t].key, threads[t].pos)
    /\ Moves(t, [threads[t] EXCEPT
                    !.pc = "idle",
                    !.puts = MapPut(@, threads[t].key,
                                    [value |-> Bytes(threads[t].value),
                                     pos |-> threads[t].pos,
                                     seq |-> threads[t].seq])])
    /\ NoCount
    /\ ThreadStep
    /\ UNCHANGED <<files, fileId, offset, oldWal, fileIds, txnId>>

(* Batch.Commit of a batch of one operation by a thread.  Commit holds the *)
(* batch's own b.mu only, so each of its record writes is a step other     *)
(* writers can interleave with.                                            *)
ThreadNewBatch(t, key, value) ==
    /\ At(t, "idle") /\ Can("commits")
    /\ Moves(t, [threads[t] EXCEPT !.pc = "txnBegin", !.key = key, !.value = value,
                                   !.txnId = txnId])
    /\ Count("commits")
    /\ ThreadStep
    /\ UNCHANGED <<files, memTable, fileId, offset, oldWal, fileIds, txnId>>

ThreadTxnBegin(t) ==
    /\ At(t, "txnBegin")
    /\ Install(putTxnBegin(Eng, TxnBeginKey, threads[t].txnId))
    /\ Moves(t, [threads[t] EXCEPT !.pc = "txnOp"])
    /\ NoCount
    /\ ThreadStep
    /\ UNCHANGED txnId

ThreadTxnOp(t) ==
    /\ At(t, "txnOp")
    /\ Install(IF threads[t].value = Nil
               THEN deleteTxn(Eng, threads[t].key, threads[t].txnId)
               ELSE putTxn(Eng, threads[t].key, threads[t].value, threads[t].txnId))
    /\ Moves(t, [threads[t] EXCEPT !.pc = "txnCommit"])
    /\ NoCount
    /\ ThreadStep
    /\ UNCHANGED txnId

ThreadTxnCommit(t) ==
    /\ At(t, "txnCommit")
    /\ Install(putTxnCommit(Eng, TxnCommitKey, threads[t].txnId))
    /\ txnId' = txnId + 1
    /\ Moves(t, [threads[t] EXCEPT !.pc = "idle"])
    /\ NoCount
    /\ ThreadStep

ThreadPutSteps(t) ==
    \/ ThreadTryRotate(t)
    \/ ThreadMustRotate(t)
    \/ ThreadLoadWal(t)
    \/ ThreadWrite(t)
    \/ ThreadIndex(t)

(* Merge next to writers.  Merge holds bc.mu only while it resets          *)
(* bc.fileIds and inside mustRotate; the traversal (ForeachUnSafe, no      *)
(* index lock), the read of the old record, the rewrite through bc.Put     *)
(* and the deletion loop run unlocked, and Put and Delete take no engine   *)
(* lock, so whole Put and Delete calls of other threads fall between the   *)
(* steps of a Merge.                                                       *)
Merging(t) == threads[t].pc \in {"mergeNext", "mergePut", "mergeDelete"}

Records(key, res) ==
    threads' = [t \in Threads |->
                   [threads[t] EXCEPT !.wrote = MapPut(@, key, res)]]

(* Bitcask.Put by a thread, from call to return. *)
ThreadPutCall(t, key, value) ==
    /\ At(t, "idle") /\ Can("writes")
    /\ Install(BitcaskPut(Eng, key, value))
    /\ Records(key, <<Bytes(value), TRUE>>)
    /\ Count("writes")
    /\ ThreadStep
    /\ UNCHANGED txnId

(* Bitcask.Delete by a thread, from call to return. *)
ThreadDeleteCall(t, key) ==
    /\ At(t, "idle") /\ Can("writes")
    /\ Install(BitcaskDelete(Eng, key))
    /\ Records(key, NotFound)
    /\ Count("writes")
    /\ ThreadStep
    /\ UNCHANGED txnId

(* Merge up to the start of the traversal: snapshot and reset bc.fileIds,  *)
(* mustRotate.                                                             *)
ThreadMerge(t) ==
    /\ At(t, "idle") /\ Can("merges")
    /\ \A u \in Threads : ~Merging(u)
    /\ Install(mustRotate([Eng EXCEPT !.fileIds = <<>>]))
    /\ Moves(t, [threads[t] EXCEPT !.pc = "mergeNext", !.seen = {}, !.ids = fileIds,
                                   !.wrote = NoOps, !.done = ""])
    /\ Count("merges")
    /\ ThreadStep
    /\ UNCHANGED txnId

(* The keys of the index the ascending traversal has still to visit. *)
Ahead(t) ==
    { k \in DOMAIN memTable : \A s \in threads[t].seen : Greater(k, s) }

(* One visit of the traversal up to the call of bc.Put: the item's         *)
(* location, the lookup of its segment, ReadPos.                           *)
ThreadMergeVisit(t) ==
    /\ At(t, "mergeNext")
    /\ IF Ahead(t) = {}
       THEN Moves(t, [threads[t] EXCEPT !.pc = "mergeDelete"])
       ELSE LET key == Head(Ascend(Ahead(t)))
                pos == memTable[key]
            IN  IF ~(pos.FileId = fileId \/ pos.FileId \in oldWal)
                   \/ pos.FileId \notin DOMAIN files
                   \/ ~ReadPos(files[pos.FileId], pos).ok
                THEN Moves(t, [threads[t] EXCEPT !.pc = "idle", !.done = "error"])
                ELSE Moves(t, [threads[t] EXCEPT
                                  !.pc = "mergePut",
                                  !.key = key,
                                  !.value = ReadPos(files[pos.FileId], pos).rec.Value,
                                  !.seen = @ \cup {key}])
    /\ NoCount
    /\ ThreadStep
    /\ UNCHANGED <<files, memTable, fileId, offset, oldWal, fileIds, txnId>>

(* The rewrite of the visited key: bc.Put(key, rec.Value). *)
ThreadMergePut(t) ==
    /\ At(t, "mergePut")
    /\ Install(BitcaskPut(Eng, threads[t].key, threads[t].value))
    /\ Moves(t, [threads[t] EXCEPT !.pc = "mergeNext"])
    /\ NoCount
    /\ ThreadStep
    /\ UNCHANGED txnId

(* The deletion loop of Merge and its return. *)
ThreadMergeDelete(t) ==
    /\ At(t, "mergeDelete")
    /\ SameConf
    /\ NoCount
    /\ UNCHANGED <<hint, expect, committed, second>>
    /\ IF DeleteOld(Eng, threads[t].ids).status = "panic"
       THEN /\ files' = DeleteOld(Eng, threads[t].ids).files
            /\ Stopped
            /\ threads' = [u \in Threads |-> IdleThread]
            /\ last' = "mergepanic"
            /\ ended' = "panic"
       ELSE /\ Install(DeleteOld(Eng, threads[t].ids))
            /\ Moves(t, [threads[t] EXCEPT !.pc = "idle", !.done = "ok"])
            /\ last' = "thread"
            /\ UNCHANGED <<isOpen, txnId, batch, ended>>

InitMergeConc ==
    InitWith(Limit(RotWrites, 0, RotMerges, 0, 0, 0), Config(RotFileSize))

NextMergeConc ==
    \E t \in Threads :
        \/ \E k \in Keys, v \in Values : ThreadPutCall(t, k, v)
        \/ \E k \in Keys : ThreadDeleteCall(t, k)
        \/ ThreadMerge(t)
        \/ ThreadMergeVisit(t)
        \/ ThreadMergePut(t)
        \/ ThreadMergeDelete(t)

SpecMergeConc == InitMergeConc /\ [][NextMergeConc]_vars

(* Readers next to writers.  Bitcask.get takes no engine lock: after       *)
(* memTable.Get (under the index read lock) it reads bc.fileId, then       *)
(* bc.activeWal or bc.oldWal, then calls ReadPos on the segment it found.  *)
(* Bitcask.Scan runs ForeachUnSafe, which takes no index lock, and reads   *)
(* the same fields in every visit.  done holds the error of the call's     *)
(* return ("ok" for none), value the value returned.                       *)
ThreadGet(t, key) ==
    /\ At(t, "idle")
    /\ Moves(t, [threads[t] EXCEPT !.pc = "getIndex", !.key = key, !.done = ""])
    /\ NoCount
    /\ ThreadStep
    /\ UNCHANGED <<files, memTable, fileId, offset, oldWal, fileIds, txnId>>

(* memTable.Get: a missing key returns ErrKeyNotFound. *)
ThreadGetIndex(t) ==
    /\ At(t, "getIndex")
    /\ IF threads[t].key \in DOMAIN memTable
       THEN Moves(t, [threads[t] EXCEPT !.pc = "getFileId",
                                        !.pos = memTable[threads[t].key]])
       ELSE Moves(t, [threads[t] EXCEPT !.pc = "idle", !.done = "ErrKeyNotFound"])
    /\ NoCount
    /\ ThreadStep
    /\ UNCHANGED <<files, memTable, fileId, offset, oldWal, fileIds, txnId>>

(* The read of bc.fileId in `pos.FileId == bc.fileId`. *)
ThreadGetFileId(t) ==
    /\ At(t, "getFileId")
    /\ Moves(t, [threads[t] EXCEPT
                    !.pc = IF threads[t].pos.FileId = fileId THEN "getActive"
                           ELSE "getOld"])
    /\ NoCount
    /\ ThreadStep
    /\ UNCHANGED <<files, memTable, fileId, offset, oldWal, fileIds, txnId>>

(* The result of get once the segment wal was found for the location pos. *)
GetResult(th, wal) ==
    IF ~ReadPos(files[wal], th.pos).ok
    THEN [th EXCEPT !.pc = "idle", !.done = "error reading from file"]
    ELSE IF ReadPos(files[wal], th.pos).rec.RecordType = RecordTypeDelete
    THEN [th EXCEPT !.pc = "idle", !.done = "ErrKeyHasDeleted"]
    ELSE [th EXCEPT !.pc = "idle", !.done = "ok",
                    !.value = ReadPos(files[wal], th.pos).rec.Value]

(* The read of bc.activeWal, or of bc.oldWal[pos.FileId], and ReadPos on   *)
(* the segment read.                                                       *)
ThreadGetWal(t) ==
    /\ isOpen /\ threads[t].pc \in {"getActive", "getOld"}
    /\ IF threads[t].pc = "getActive"
       THEN Moves(t, GetResult(threads[t], fileId))
       ELSE IF threads[t].pos.FileId \in oldWal
       THEN Moves(t, GetResult(threads[t], threads[t].pos.FileId))
       ELSE Moves(t, [threads[t] EXCEPT !.pc = "idle", !.done = "file not found"])
    /\ NoCount
    /\ ThreadStep
    /\ UNCHANGED <<files, memTable, fileId, offset, oldWal, fileIds, txnId>>

(* Bitcask.Scan up to the start of the traversal. *)
ThreadScan(t) ==
    /\ At(t, "idle")
    /\ Moves(t, [threads[t] EXCEPT !.pc = "scanNext", !.seen = {}, !.done = ""])
    /\ NoCount
    /\ ThreadStep
    /\ UNCHANGED <<files, memTable, fileId, offset, oldWal, fileIds, txnId>>

(* One visit of the traversal of Scan, or its end. *)
ThreadScanVisit(t) ==
    /\ At(t, "scanNext")
    /\ IF Ahead(t) = {}
       THEN Moves(t, [threads[t] EXCEPT !.pc = "idle", !.done = "ok"])
       ELSE LET key == Head(Ascend(Ahead(t)))
                pos == memTable[key]
            IN  IF ~(pos.FileId = fileId \/ pos.FileId \in oldWal)
                THEN Moves(t, [threads[t] EXCEPT !.pc = "idle",
                                                 !.done = "file not found"])
                ELSE IF ~ReadPos(files[pos.FileId], pos).ok
                THEN Moves(t, [threads[t] EXCEPT !.pc = "idle",
                                                 !.done = "error reading from file"])
                ELSE Moves(t, [threads[t] EXCEPT !.seen = @ \cup {key}])
    /\ NoCount
    /\ ThreadStep
    /\ UNCHANGED <<files, memTable, fileId, offset, oldWal, fileIds, txnId>>

(* threads putting, getting and scanning concurrently, with rotations *)
InitRead == InitWith(Limit(RotWrites, 0, 0, 0, 0, 0), Config(RotFileSize))

NextRead ==
    \E t \in Threads :
        \/ \E k \in Keys, v \in Values : ThreadPut(t, k, v)
        \/ ThreadPutSteps(t)
        \/ \E k \in Keys : ThreadGet(t, k)
        \/ ThreadGetIndex(t)
        \/ ThreadGetFileId(t)
        \/ ThreadGetWal(t)
        \/ ThreadScan(t)
        \/ ThreadScanVisit(t)

SpecRead == InitRead /\ [][NextRead]_vars

(* threads putting concurrently, with rotations *)
InitConc == InitWith(Limit(ConcWrites, 0, 0, 0, 0, 0), Config(ConcFileSize))

NextConc ==
    \E t \in Threads :
        \/ \E k \in Keys, v \in Values : ThreadPut(t, k, v)
        \/ ThreadPutSteps(t)

SpecConc == InitConc /\ [][NextConc]_vars

(* threads putting and committing batches concurrently *)
InitTxn == InitWith(Limit(TxnWrites, TxnCommits, 0, 0, 0, 0), Config(TxnFileSize))

NextTxn ==
    \E t \in Threads :
        \/ \E k \in Keys, v \in Values : ThreadPut(t, k, v)
        \/ ThreadPutSteps(t)
        \/ \E k \in Keys, v \in Values : ThreadNewBatch(t, k, v)
        \/ ThreadTxnBegin(t)
        \/ ThreadTxnOp(t)
        \/ ThreadTxnCommit(t)

SpecTxn == InitTxn /\ [][NextTxn]_vars

(* Put called with any key a caller can pass: a key of Keys, nil, or a     *)
(* zero-length key.                                                        *)
AnyKeys == Keys \cup {Nil, <<>>}

PutKey(key, value) ==
    /\ isOpen /\ Can("writes")
    /\ SameConf /\ Solo
    /\ committed' = NoOps
    /\ Install(BitcaskPut(Eng, key, value))
    /\ last' = IF key = Nil THEN "puterror" ELSE "putkey"
    /\ Count("writes")
    /\ UNCHANGED <<hint, isOpen, txnId, batch, ended, expect>>

NextKey ==
    \/ \E k \in AnyKeys, v \in Values : PutKey(k, v)
    \/ \E k \in Keys : Delete(k)
    \/ Close
    \/ Open

SpecKey == InitKV /\ [][NextKey]_vars

(* batches against a small batch_size *)
InitSize ==
    InitWith(Limit(0, SizeCommits, 0, 0, 0, SizeOps),
             ConfigWith(BatchFileSize, SmallBatchSize))

NextSize ==
    \/ NewBatch
    \/ \E k \in Keys, v \in Values : BatchPut(k, v)
    \/ \E k \in Keys : BatchDelete(k)
    \/ Commit

SpecSize == InitSize /\ [][NextSize]_vars

(* put, delete, merge, close, crash and reopen with a rotation after every *)
(* record                                                                  *)
InitRot == InitWith(Limit(RotWrites, 0, RotMerges, 0, RotOpens, 0), Config(RotFileSize))

NextRot ==
    \/ \E k \in Keys, v \in Values : Put(k, v)
    \/ \E k \in Keys : Delete(k)
    \/ Merge
    \/ Close
    \/ Crash
    \/ Open

SpecRot == InitRot /\ [][NextRot]_vars

(* put, delete, merge with and without an I/O error, close, crash, reopen *)
NextMergeFail ==
    \/ \E k \in Keys, v \in Values : Put(k, v)
    \/ \E k \in Keys : Delete(k)
    \/ Merge
    \/ \E n \in 0..Cardinality(Keys), rewrite \in BOOLEAN : MergeFail(n, rewrite)
    \/ Close
    \/ Crash
    \/ Open

SpecMergeFail == InitRot /\ [][NextMergeFail]_vars

(* put, delete, merge, close, crash and reopen *)
InitMerge ==
    InitWith(Limit(MergeWrites, 0, MergeMerges, 0, MergeOpens, 0), Config(MergeFileSize))

NextMerge ==
    \/ \E k \in Keys, v \in Values : Put(k, v)
    \/ \E k \in Keys : Delete(k)
    \/ Merge
    \/ Close
    \/ Crash
    \/ Open

SpecMerge == InitMerge /\ [][NextMerge]_vars

(* put, delete, batches, close, crash and reopen *)
InitBatch ==
    InitWith(Limit(BatchWrites, BatchCommits, 0, 0, BatchOpens, BatchOps),
             Config(BatchFileSize))

NextBatch ==
    \/ \E k \in Keys, v \in Values : Put(k, v)
    \/ \E k \in Keys : Delete(k)
    \/ NewBatch
    \/ \E k \in Keys, v \in Values : BatchPut(k, v)
    \/ \E k \in Keys : BatchDelete(k)
    \/ Commit
    \/ \E n \in 0..limit.batchops : CommitCrash(n)
    \/ Close
    \/ Crash
    \/ Open

SpecBatch == InitBatch /\ [][NextBatch]_vars

(* put, delete, batches, a crash inside or outside of commit, reopen, with *)
(* a max_file_size no behaviour reaches: everything is in one segment.     *)
InitRecover ==
    InitWith(Limit(BatchWrites, BatchCommits, 0, 0, BatchOpens, BatchOps),
             Config(LargeFileSize))

NextRecover ==
    \/ \E k \in Keys, v \in Values : Put(k, v)
    \/ \E k \in Keys : Delete(k)
    \/ NewBatch
    \/ \E k \in Keys, v \in Values : BatchPut(k, v)
    \/ \E k \in Keys : BatchDelete(k)
    \/ Commit
    \/ \E n \in 0..limit.batchops : CommitCrash(n)
    \/ Crash
    \/ Open

SpecRecover == InitRecover /\ [][NextRecover]_vars

(* puts and deletes, then one batch at a time: while the batch is          *)
(* buffering, expect follows the latest operation buffered per key.        *)
NextBuffer ==
    \/ \E k \in Keys, v \in Values : ~batch.active /\ Put(k, v)
    \/ \E k \in Keys : ~batch.active /\ Delete(k)
    \/ NewBatch
    \/ \E k \in Keys, v \in Values :
           BatchPutExpecting(k, v, [expect EXCEPT ![k] = <<Bytes(v), TRUE>>])
    \/ \E k \in Keys : BatchDeleteExpecting(k, [expect EXCEPT ![k] = NotFound])
    \/ Commit

SpecBuffer == InitBatch /\ [][NextBuffer]_vars

(* batches whose commit can fail in the middle *)
NextFail ==
    \/ \E k \in Keys, v \in Values : Put(k, v)
    \/ NewBatch
    \/ \E k \in Keys, v \in Values : BatchPut(k, v)
    \/ \E k \in Keys : BatchDelete(k)
    \/ Commit
    \/ \E n \in 0..limit.batchops : CommitFail(n)

SpecFail == InitBatch /\ [][NextFail]_vars

----------------------------------------------------------------------------
(* Concurrent calls with their locks.  A lock is a pair: bc.mu of the      *)
(* engine, mu of the index, mu of the client's Batch, and w.mu of the      *)
(* handle of segment id.  A caller's locks field is the stack of the locks *)
(* it holds with their modes, wait the lock whose Lock() it is blocked in  *)
(* behind readers, inside whether it is in the critical section of its pc. *)

EngineMu == <<"bc", 0>>

IndexMu == <<"index", 0>>

BatchMu == <<"batch", 0>>

WalMu(id) == <<"wal", id>>

Holds(t, l, mode) ==
    \E i \in 1..Len(threads[t].locks) : threads[t].locks[i] = <<l, mode>>

Readers(l) == { t \in Threads : Holds(t, l, "r") }

Writers(l) == { t \in Threads : Holds(t, l, "w") }

(* The callers inside Lock() of l that have announced themselves and wait  *)
(* for the readers to leave; RLock() blocks behind them.                   *)
Pending(l) == { t \in Threads : l \in threads[t].wait }

(* The critical sections, by position, with the lock each takes. *)
Sections ==
    {"size", "sync", "rotate", "write", "index", "lookup", "read", "log", "buffer",
     "commit", "foreach", "reset", "remove"}

Request(th) ==
    CASE th.pc \in {"size", "sync"} -> <<WalMu(fileId), "r">>
      [] th.pc = "write" -> <<WalMu(fileId), "w">>
      [] th.pc \in {"rotate", "reset"} -> <<EngineMu, "w">>
      [] th.pc = "index" -> <<IndexMu, "w">>
      [] th.pc \in {"lookup", "foreach"} -> <<IndexMu, "r">>
      [] th.pc = "read" -> <<WalMu(th.pos.FileId), "r">>
      [] th.pc = "log" -> <<BatchMu, "r">>
      [] th.pc \in {"buffer", "commit"} -> <<BatchMu, "w">>
      [] th.pc = "remove" -> <<WalMu(Head(th.ids)), "w">>

(* Whether the handle the section locks exists: get, Scan and Merge look   *)
(* the segment of a location up in bc.fileId and bc.oldWal, the deletion   *)
(* loop of Merge takes bc.oldWal[id].                                      *)
HasHandle(th) ==
    CASE th.pc = "read" -> th.pos.FileId = fileId \/ th.pos.FileId \in oldWal
      [] th.pc = "remove" -> Head(th.ids) \in oldWal
      [] OTHER -> TRUE

Acquired(th, req) ==
    [th EXCEPT !.inside = TRUE, !.wait = {}, !.locks = Append(@, req),
               !.wal = IF req[1][1] = "wal" THEN req[1][2] ELSE @]

(* A step of a caller that leaves the engine, the directory and the batch  *)
(* as they are.                                                            *)
CallStep ==
    /\ SameConf
    /\ last' = "thread"
    /\ UNCHANGED <<isOpen, ended, expect, committed, second>>

LocalStep ==
    /\ CallStep
    /\ NoCount
    /\ UNCHANGED <<files, hint, memTable, fileId, offset, oldWal, fileIds, txnId, batch>>

Waiting(t) ==
    /\ isOpen
    /\ threads[t].pc \in Sections
    /\ ~threads[t].inside
    /\ HasHandle(threads[t])

(* sync.RWMutex.RLock: blocks while a writer holds the lock or waits for it *)
ThreadRLock(t) ==
    /\ Waiting(t)
    /\ Request(threads[t])[2] = "r"
    /\ Writers(Request(threads[t])[1]) = {}
    /\ Pending(Request(threads[t])[1]) = {}
    /\ Moves(t, Acquired(threads[t], Request(threads[t])))
    /\ LocalStep

(* sync.RWMutex.Lock: one writer at a time gets past the writer mutex; it  *)
(* has the lock at once when no reader holds it and waits for the readers  *)
(* otherwise.                                                              *)
ThreadLock(t) ==
    /\ Waiting(t)
    /\ threads[t].wait = {}
    /\ Request(threads[t])[2] = "w"
    /\ Writers(Request(threads[t])[1]) = {}
    /\ Pending(Request(threads[t])[1]) = {}
    /\ Moves(t, IF Readers(Request(threads[t])[1]) = {}
                THEN Acquired(threads[t], Request(threads[t]))
                ELSE [threads[t] EXCEPT !.wait = {Request(threads[t])[1]}])
    /\ LocalStep

ThreadLockWait(t) ==
    /\ isOpen
    /\ threads[t].wait # {}
    /\ \A l \in threads[t].wait : Readers(l) = {}
    /\ Moves(t, Acquired(threads[t], <<CHOOSE l \in threads[t].wait : TRUE, "w">>))
    /\ LocalStep

In(t, pc) == isOpen /\ threads[t].pc = pc /\ threads[t].inside

(* The end of a critical section: its lock is released (the deferred       *)
(* Unlock), the caller goes on at pc.                                      *)
Leave(th, pc) ==
    [th EXCEPT !.pc = pc, !.inside = FALSE, !.locks = SubSeq(@, 1, Len(@) - 1)]

(* The call returns; its locals are gone. *)
Return(th, res) == [IdleThread EXCEPT !.done = res, !.calls = th.calls]

(* The records of Batch.Commit in order: TxnBegin, one per entry of b.keys *)
(* that is still in b.mp (a nil value is a delete), TxnCommit.             *)
RECURSIVE KeyOps(_, _)
KeyOps(b, i) ==
    IF i > Len(b.keys) THEN <<>>
    ELSE (IF b.keys[i] \in DOMAIN b.mp
          THEN << [op |-> IF b.mp[b.keys[i]] = Nil THEN "delete" ELSE "put",
                   key |-> b.keys[i], value |-> Bytes(b.mp[b.keys[i]])] >>
          ELSE <<>>) \o KeyOps(b, i + 1)

CommitSteps(b) ==
    << [op |-> "begin", key |-> TxnBeginKey, value |-> <<>>] >> \o KeyOps(b, 1)
        \o << [op |-> "commit", key |-> TxnCommitKey, value |-> <<>>] >>

(* The caller of Commit, holding b.mu, at the call for the head of its     *)
(* remaining records: putTxnBegin, putTxn and putTxnCommit start with      *)
(* tryRotate, deleteTxn with memTable.Get; after the last one Commit       *)
(* clears the batch.                                                       *)
Dispatch(th) ==
    IF th.ops = <<>> THEN [th EXCEPT !.pc = "commitEnd", !.inside = FALSE]
    ELSE LET o == Head(th.ops)
         IN  CASE o.op = "begin" ->
                    [th EXCEPT !.pc = "size", !.inside = FALSE, !.idx = "none",
                       !.rec = Encode(NewTxnBegin(EncodeTxnId(th.txnId, o.key)))]
               [] o.op = "commit" ->
                    [th EXCEPT !.pc = "size", !.inside = FALSE, !.idx = "none",
                       !.rec = Encode(NewTxnCommit(EncodeTxnId(th.txnId, o.key)))]
               [] o.op = "put" ->
                    [th EXCEPT !.pc = "size", !.inside = FALSE, !.idx = "put",
                       !.key = o.key,
                       !.rec = Encode(NewTxnRecord(EncodeTxnId(th.txnId, o.key), o.value))]
               [] o.op = "delete" ->
                    [th EXCEPT !.pc = "lookup", !.inside = FALSE, !.idx = "delete",
                       !.key = o.key,
                       !.rec = Encode(NewTxnRecord(EncodeTxnId(th.txnId, o.key), Nil))]

(* The caller after its append (and index update): Put and Delete return,  *)
(* Commit goes on with its next record, Merge with its traversal.          *)
Resume(th) ==
    CASE th.ret = "txn" -> Dispatch([th EXCEPT !.ops = Tail(@)])
      [] th.ret = "merge" -> [th EXCEPT !.pc = "mergeNext", !.inside = FALSE]
      [] OTHER -> Return(th, "ok")

(* An idle caller starts a call. *)
Start(t, th) ==
    /\ isOpen
    /\ threads[t].pc = "idle"
    /\ threads[t].calls < CallsPerThread
    /\ Moves(t, [th EXCEPT !.calls = @ + 1, !.done = ""])

CallPut(t, key, value) ==
    /\ Can("writes")
    /\ Start(t, [threads[t] EXCEPT !.pc = "size", !.call = "put", !.key = key,
                    !.rec = Encode(NewRecord(key, value)), !.idx = "put", !.ret = "done"])
    /\ Count("writes")
    /\ CallStep
    /\ UNCHANGED <<files, hint, memTable, fileId, offset, oldWal, fileIds, txnId, batch>>

CallDelete(t, key) ==
    /\ Can("writes")
    /\ Start(t, [threads[t] EXCEPT !.pc = "lookup", !.call = "delete", !.key = key,
                    !.rec = Encode(NewRecord(key, Nil)), !.idx = "delete",
                    !.ret = "done"])
    /\ Count("writes")
    /\ CallStep
    /\ UNCHANGED <<files, hint, memTable, fileId, offset, oldWal, fileIds, txnId, batch>>

CallGet(t, key) ==
    /\ Start(t, [threads[t] EXCEPT !.pc = "lookup", !.call = "get", !.key = key])
    /\ LocalStep

CallScan(t) ==
    /\ Start(t, [threads[t] EXCEPT !.pc = "scanNext", !.call = "scan", !.seen = {}])
    /\ LocalStep

CallBatchPut(t, key, value) ==
    /\ batch.active /\ Can("batchops")
    /\ Start(t, [threads[t] EXCEPT !.pc = "log", !.call = "bput", !.key = key,
                    !.value = value])
    /\ Count("batchops")
    /\ CallStep
    /\ UNCHANGED <<files, hint, memTable, fileId, offset, oldWal, fileIds, txnId, batch>>

CallBatchDelete(t, key) ==
    /\ batch.active /\ Can("batchops")
    /\ Start(t, [threads[t] EXCEPT !.pc = "log", !.call = "bdelete", !.key = key])
    /\ Count("batchops")
    /\ CallStep
    /\ UNCHANGED <<files, hint, memTable, fileId, offset, oldWal, fileIds, txnId, batch>>

CallCommit(t) ==
    /\ batch.active /\ Can("commits")
    /\ Start(t, [threads[t] EXCEPT !.pc = "commit", !.call = "commit", !.ret = "txn",
                    !.txnId = batch.txnId])
    /\ Count("commits")
    /\ CallStep
    /\ UNCHANGED <<files, hint, memTable, fileId, offset, oldWal, fileIds, txnId, batch>>

CallHint(t) ==
    /\ Can("hints")
    /\ Start(t, [threads[t] EXCEPT !.pc = "foreach", !.call = "hint"])
    /\ Count("hints")
    /\ CallStep
    /\ UNCHANGED <<files, hint, memTable, fileId, offset, oldWal, fileIds, txnId, batch>>

(* Merge reads bc.fileIds into oldFileIds before it takes bc.mu. *)
CallMerge(t) ==
    /\ Can("merges")
    /\ Start(t, [threads[t] EXCEPT !.pc = "reset", !.call = "merge", !.ret = "start",
                    !.ids = fileIds, !.seen = {}])
    /\ Count("merges")
    /\ CallStep
    /\ UNCHANGED <<files, hint, memTable, fileId, offset, oldWal, fileIds, txnId, batch>>

(* Wal.Size under w.mu.RLock, in tryRotate. *)
ThreadSize(t) ==
    /\ In(t, "size")
    /\ Moves(t, Leave(threads[t],
                      IF (IF threads[t].wal = fileId THEN offset
                          ELSE SizeOf(files[threads[t].wal])) < conf.MaxFileSize
                      THEN "write" ELSE "sync"))
    /\ LocalStep

(* Wal.Sync under w.mu.RLock, at the head of mustRotate. *)
ThreadSync(t) ==
    /\ In(t, "sync")
    /\ Moves(t, Leave(threads[t], "rotate"))
    /\ LocalStep

(* The body of mustRotate under bc.mu. *)
ThreadRotate(t) ==
    /\ In(t, "rotate")
    /\ Install(mustRotate(Eng))
    /\ Moves(t, Leave(threads[t], IF threads[t].ret = "start" THEN "mergeNext"
                                  ELSE "write"))
    /\ CallStep
    /\ NoCount
    /\ UNCHANGED <<hint, txnId, batch>>

(* Wal.write under w.mu of the handle the caller loaded. *)
ThreadAppend(t) ==
    /\ In(t, "write")
    /\ files' = [files EXCEPT ![threads[t].wal] = Append(@, threads[t].rec)]
    /\ offset' = IF threads[t].wal = fileId
                 THEN offset + EncodedLen(threads[t].rec) ELSE offset
    /\ Moves(t, LET th == [Leave(threads[t], "index") EXCEPT
                              !.pos = NewPos(threads[t].wal,
                                             IF threads[t].wal = fileId THEN offset
                                             ELSE SizeOf(files[threads[t].wal]),
                                             EncodedLen(threads[t].rec))]
                IN  IF th.idx = "none" THEN Resume(th) ELSE th)
    /\ CallStep
    /\ NoCount
    /\ UNCHANGED <<hint, memTable, fileId, oldWal, fileIds, txnId, batch>>

(* memTable.Put or memTable.Delete under the index lock. *)
ThreadIndexUpdate(t) ==
    /\ In(t, "index")
    /\ memTable' = IF threads[t].idx = "put"
                   THEN IndexPut(memTable, threads[t].key, threads[t].pos)
                   ELSE IndexDelete(memTable, threads[t].key)
    /\ Moves(t, Resume(Leave(threads[t], "idle")))
    /\ CallStep
    /\ NoCount
    /\ UNCHANGED <<files, hint, fileId, offset, oldWal, fileIds, txnId, batch>>

(* memTable.Get under the index read lock, in Delete, deleteTxn, get and   *)
(* the db.Get of Batch.Delete.                                             *)
ThreadLookup(t) ==
    /\ In(t, "lookup")
    /\ Moves(t, LET th == Leave(threads[t], "idle")
                IN  IF th.key \in DOMAIN memTable
                    THEN IF th.call \in {"delete", "commit"}
                         THEN [th EXCEPT !.pc = "size"]
                         ELSE [th EXCEPT !.pc = "read", !.pos = memTable[th.key]]
                    ELSE CASE th.call = "commit" -> Dispatch([th EXCEPT !.ops = Tail(@)])
                           [] th.call = "bdelete" ->
                                [th EXCEPT !.pc = "buffer", !.idx = "absent"]
                           [] OTHER -> Return(th, IF th.call = "get" THEN "notfound"
                                                  ELSE "ok"))
    /\ LocalStep

(* Wal.ReadPos under w.mu.RLock of the segment of the location. *)
ThreadRead(t) ==
    /\ In(t, "read")
    /\ Moves(t, LET th == Leave(threads[t], "idle")
                    r == ReadPos(files[th.pos.FileId], th.pos)
                IN  CASE th.call = "get" -> Return(th, IF r.ok THEN "ok" ELSE "error")
                      [] th.call = "bdelete" ->
                           [th EXCEPT !.pc = "buffer",
                                      !.idx = IF r.ok /\ r.rec.RecordType # RecordTypeDelete
                                              THEN "found" ELSE "absent"]
                      [] th.call = "scan" ->
                           IF r.ok THEN [th EXCEPT !.pc = "scanNext"]
                           ELSE Return(th, "error")
                      [] th.call = "merge" ->
                           IF r.ok
                           THEN [th EXCEPT !.pc = "size", !.idx = "put", !.ret = "merge",
                                    !.rec = Encode(NewRecord(th.key, r.rec.Value))]
                           ELSE Return(th, "error"))
    /\ LocalStep

(* The location names a segment that is neither active nor in bc.oldWal:   *)
(* get, Scan and Merge return "file not found".                            *)
ThreadNoFile(t) ==
    /\ isOpen /\ threads[t].pc = "read" /\ ~threads[t].inside
    /\ ~HasHandle(threads[t])
    /\ Moves(t, IF threads[t].call = "bdelete"
                THEN [threads[t] EXCEPT !.pc = "buffer", !.idx = "absent"]
                ELSE Return(threads[t], "error"))
    /\ LocalStep

(* Batch.log under b.mu.RLock. *)
ThreadLog(t) ==
    /\ In(t, "log")
    /\ Moves(t, Leave(threads[t], IF threads[t].call = "bput" THEN "buffer"
                                  ELSE "lookup"))
    /\ LocalStep

(* The write to b.mp of a batch that Commit has cleared (b.mp = nil). *)
WritesNilMap(th) == ~batch.active /\ (th.call = "bput" \/ th.idx = "found")

(* The body of Batch.Put and of Batch.Delete under b.mu. *)
ThreadBuffer(t) ==
    /\ In(t, "buffer")
    /\ ~WritesNilMap(threads[t])
    /\ batch' = IF threads[t].call = "bput"
                THEN [batch EXCEPT !.mp = MapPut(batch.mp, threads[t].key, threads[t].value),
                                   !.keys = Append(batch.keys, threads[t].key)]
                ELSE IF threads[t].idx = "found"
                THEN [batch EXCEPT !.mp = MapPut(batch.mp, threads[t].key, Nil),
                                   !.keys = Append(batch.keys, threads[t].key)]
                ELSE [batch EXCEPT !.mp = MapDelete(batch.mp, threads[t].key)]
    /\ Moves(t, Return(Leave(threads[t], "idle"), "ok"))
    /\ CallStep
    /\ NoCount
    /\ UNCHANGED <<files, hint, memTable, fileId, offset, oldWal, fileIds, txnId>>

(* The head of Batch.Commit under b.mu, which it keeps to its return. *)
ThreadCommit(t) ==
    /\ In(t, "commit")
    /\ Moves(t, IF SizeExceeded(batch, conf) \/ DOMAIN batch.mp = {}
                THEN Return(Leave(threads[t], "idle"),
                            IF SizeExceeded(batch, conf) THEN "error" ELSE "ok")
                ELSE Dispatch([threads[t] EXCEPT !.ops = CommitSteps(batch)]))
    /\ LocalStep

(* The tail of Batch.Commit: the next txn id, the buffer cleared, b.mu     *)
(* released.                                                               *)
ThreadCommitEnd(t) ==
    /\ isOpen /\ threads[t].pc = "commitEnd"
    /\ txnId' = txnId + 1
    /\ batch' = NoBatch
    /\ Moves(t, Return(Leave(threads[t], "idle"), "ok"))
    /\ CallStep
    /\ NoCount
    /\ UNCHANGED <<files, hint, memTable, fileId, offset, oldWal, fileIds>>

(* The traversal of Hint under the index read lock (BTreeIndex.Foreach). *)
ThreadForeach(t) ==
    /\ In(t, "foreach")
    /\ hint' = HintOf(memTable, txnId)
    /\ Moves(t, Return(Leave(threads[t], "idle"), "ok"))
    /\ CallStep
    /\ NoCount
    /\ UNCHANGED <<files, memTable, fileId, offset, oldWal, fileIds, txnId, batch>>

(* Merge empties bc.fileIds under bc.mu, then calls mustRotate. *)
ThreadReset(t) ==
    /\ In(t, "reset")
    /\ fileIds' = <<>>
    /\ Moves(t, Leave(threads[t], "sync"))
    /\ CallStep
    /\ NoCount
    /\ UNCHANGED <<files, hint, memTable, fileId, offset, oldWal, txnId, batch>>

(* The next item of ForeachUnSafe, without any lock, in Scan and in Merge; *)
(* after the last one Scan returns and Merge starts its deletion loop.     *)
ThreadNextItem(t) ==
    /\ isOpen /\ threads[t].pc \in {"scanNext", "mergeNext"}
    /\ Moves(t, IF Ahead(t) # {}
                THEN LET k == CHOOSE x \in Ahead(t) :
                                 \A y \in Ahead(t) : x = y \/ Less(x, y)
                     IN  [threads[t] EXCEPT !.pc = "read", !.key = k,
                                            !.pos = memTable[k], !.seen = @ \cup {k}]
                ELSE IF threads[t].call = "merge" /\ threads[t].ids # <<>>
                THEN [threads[t] EXCEPT !.pc = "remove"]
                ELSE Return(threads[t], "ok"))
    /\ LocalStep

(* Wal.Delete of bc.oldWal[id] under its w.mu, and the delete from the map *)
ThreadRemove(t) ==
    /\ In(t, "remove")
    /\ files' = [i \in DOMAIN files \ {threads[t].wal} |-> files[i]]
    /\ oldWal' = oldWal \ {threads[t].wal}
    /\ Moves(t, LET th == [Leave(threads[t], "remove") EXCEPT !.ids = Tail(@)]
                IN  IF th.ids = <<>> THEN Return(th, "ok") ELSE th)
    /\ CallStep
    /\ NoCount
    /\ UNCHANGED <<hint, memTable, fileId, offset, fileIds, txnId, batch>>

(* A nil pointer dereference or a write to a nil map ends the process:     *)
(* Wal.Delete on the nil handle of an id that is not in bc.oldWal, the     *)
(* write to b.mp after Commit cleared it.  No call in progress returns.    *)
ThreadPanic(t) ==
    /\ isOpen
    /\ \/ threads[t].pc = "remove" /\ ~threads[t].inside /\ ~HasHandle(threads[t])
       \/ threads[t].pc = "buffer" /\ threads[t].inside /\ WritesNilMap(threads[t])
    /\ SameConf
    /\ Stopped
    /\ last' = IF threads[t].call = "merge" THEN "mergepanic" ELSE "batchpanic"
    /\ ended' = "panic"
    /\ NoCount
    /\ UNCHANGED <<files, hint, expect, committed, second, threads>>

(* The steps of caller t inside a call. *)
ThreadRuns(t) ==
    \/ ThreadRLock(t) \/ ThreadLock(t) \/ ThreadLockWait(t)
    \/ ThreadSize(t) \/ ThreadSync(t) \/ ThreadRotate(t) \/ ThreadAppend(t)
    \/ ThreadIndexUpdate(t) \/ ThreadLookup(t) \/ ThreadRead(t) \/ ThreadNoFile(t)
    \/ ThreadLog(t) \/ ThreadBuffer(t) \/ ThreadCommit(t) \/ ThreadCommitEnd(t)
    \/ ThreadForeach(t) \/ ThreadReset(t) \/ ThreadNextItem(t) \/ ThreadRemove(t)
    \/ ThreadPanic(t)

(* The engine opened on an empty directory or on one segment with a record *)
(* and no batch yet or a batch with one buffered put.                      *)
InitCalls ==
    \E dir \in { [i \in {} |-> <<>>],
                 [i \in {0} |-> << Encode(NewRecord(<<97>>, <<>>)) >>] },
       buffered \in BOOLEAN :
        StartedWith(NewBitcask(dir, NoHint, TRUE),
                    Limit(CallWrites, CallCommits, CallMerges, CallHints, 0, CallBatchOps),
                    Config(RotFileSize),
                    IF buffered
                    THEN [active |-> TRUE, txnId |-> NewBitcask(dir, NoHint, TRUE).txnId,
                          mp |-> MapPut(NoOps, <<97>>, <<>>), keys |-> << <<97>> >>]
                    ELSE NoBatch)

NextCalls ==
    \/ NewBatch
    \/ \E t \in Threads :
        \/ \E k \in Keys : CallPut(t, k, <<>>)
        \/ \E k \in Keys : CallDelete(t, k)
        \/ \E k \in Keys : CallGet(t, k)
        \/ CallScan(t)
        \/ \E k \in Keys : CallBatchPut(t, k, <<>>)
        \/ \E k \in Keys : CallBatchDelete(t, k)
        \/ CallCommit(t)
        \/ CallHint(t)
        \/ CallMerge(t)
        \/ ThreadRuns(t)

SpecCalls == InitCalls /\ [][NextCalls]_vars

(* Fair scheduling: a caller that can take a step of its call takes one. *)
SpecCallsFair == SpecCalls /\ \A t \in Threads : WF_vars(ThreadRuns(t))

----------------------------------------------------------------------------
(* Reference replay of the whole log: the records of all segments in       *)
(* ascending segment id order and in-file order; standalone Put and Delete *)
(* records apply where they stand, the records of a transaction apply at   *)
(* its TxnCommit, a transaction without TxnCommit applies nothing.         *)

RECURSIVE LogOfFile(_, _, _, _)
LogOfFile(recs, id, i, off) ==
    IF i > Len(recs) THEN <<>>
    ELSE <<[rec |-> recs[i], pos |-> NewPos(id, off, EncodedLen(recs[i]))]>>
         \o LogOfFile(recs, id, i + 1, off + EncodedLen(recs[i]))

RECURSIVE LogOf(_, _)
LogOf(f, ids) ==
    IF ids = <<>> THEN <<>>
    ELSE LogOfFile(f[Head(ids)], Head(ids), 1, 0) \o LogOf(f, Tail(ids))

RECURSIVE RefApply(_, _)
RefApply(st, log) ==
    IF log = <<>> THEN st
    ELSE LET d == Head(log)
             t == d.rec.RecordType
             userKey == DecodeTxnId(d.rec.Key)[2]
             nx == IF t = RecordTypePut
                   THEN [st EXCEPT !.idx = IndexPut(st.idx, d.rec.Key, d.pos)]
                   ELSE IF t = RecordTypeDelete
                   THEN [st EXCEPT !.idx = IndexDelete(st.idx, d.rec.Key)]
                   ELSE IF t = RecordTypeBegin
                   THEN [st EXCEPT !.inTxn = TRUE, !.buf = <<>>]
                   ELSE IF t \in {RecordTypeTxnPut, RecordTypeTxnDelete}
                   THEN IF st.inTxn
                        THEN [st EXCEPT !.buf = Append(st.buf,
                                 [rec |-> [d.rec EXCEPT !.Key = userKey], pos |-> d.pos])]
                        ELSE st
                   ELSE IF st.inTxn
                        THEN [st EXCEPT !.idx = ApplyTxnData(st.idx, st.buf),
                                        !.inTxn = FALSE, !.buf = <<>>]
                        ELSE st
         IN  RefApply(nx, Tail(log))

RefIndex(f) ==
    RefApply([idx |-> EmptyIndex, inTxn |-> FALSE, buf |-> <<>>],
             LogOf(f, SortIds(DOMAIN f))).idx

(* Total size in bytes of the segment files. *)
RECURSIVE DiskSize(_, _)
DiskSize(f, ids) ==
    IF ids = {} THEN 0
    ELSE LET id == CHOOSE x \in ids : TRUE
         IN  SizeOf(f[id]) + DiskSize(f, ids \ {id})

----------------------------------------------------------------------------
(* Claims *)

(* C1: after every successful open the index holds exactly the keys and    *)
(* locations obtained by applying, in segment id order and in-file order,  *)
(* every standalone Put/Delete record and every transaction that has a     *)
(* TxnCommit, ignoring the records of transactions without TxnCommit.      *)
C1_RecoveredIndexIsReplay ==
    (isOpen /\ last = "open") => memTable = RefIndex(files)

(* C2: in one session, after any sequence of put and delete calls, get(k)  *)
(* returns (v, true) for the latest put(k, v) unless a later delete(k)     *)
(* intervened, in which case it returns not found.                         *)
C2_GetReturnsLatestPut ==
    (isOpen /\ last \in {"put", "delete"}) => Visible = expect

(* C3: after put and delete calls followed by close and open, over several *)
(* sessions, get(k) returns for every key the same result as immediately   *)
(* before the close.                                                       *)
C3_ReopenPreservesGet ==
    (isOpen /\ last = "open" /\ ended = "close") => Visible = expect

C3_Witness ==
    /\ isOpen /\ last = "open" /\ ended = "close" /\ cnt.opens = 2
    /\ Cardinality(DOMAIN files) >= 2
    /\ \E k \in Keys : Visible[k][2]
    /\ \E k \in Keys : /\ ~Visible[k][2]
                       /\ \E id \in DOMAIN files : \E i \in 1..Len(files[id]) :
                             /\ files[id][i].RecordType = RecordTypePut
                             /\ files[id][i].Key = k

(* C4: after a successful batch commit followed by close and open, every   *)
(* key put by the batch reads back its committed value and every key       *)
(* deleted by the batch is absent (also from scan), also when the batch's  *)
(* records lie in more than one segment.                                   *)
C4_CommittedBatchSurvivesReopen ==
    (isOpen /\ last = "open" /\ ended = "commitclose") =>
        \A k \in DOMAIN committed :
            IF committed[k] = Nil
            THEN k \notin DOMAIN memTable /\ Visible[k] = NotFound
            ELSE Visible[k] = <<committed[k], TRUE>>

(* C5: after a successful commit all ops of the batch are visible through  *)
(* get; after a crash between TxnBegin and TxnCommit and a reopen, every   *)
(* key has the value it had before the batch.                              *)
C5_BatchAtomicity ==
    /\ (isOpen /\ last = "commit") => Visible = expect
    /\ (isOpen /\ last = "open" /\ ended = "commitcrash") => Visible = expect

(* C6: every index entry refers to an existing segment (active or sealed), *)
(* its (offset, length) lies inside that segment and the bytes there       *)
(* decode to a non-tombstone record whose key is the index key.            *)
C6_IndexEntriesValid ==
    isOpen =>
        \A k \in DOMAIN memTable :
            LET pos == memTable[k]
            IN  /\ pos.FileId \in DOMAIN files
                /\ pos.FileId = fileId \/ pos.FileId \in oldWal
                /\ pos.Offset + pos.Length <= SizeOf(files[pos.FileId])
                /\ ReadPos(files[pos.FileId], pos).ok
                /\ ReadPos(files[pos.FileId], pos).rec.RecordType
                       \notin {RecordTypeDelete, RecordTypeTxnDelete}
                /\ ReadPos(files[pos.FileId], pos).rec.Key = k

(* C7: a successful merge leaves get(k) unchanged for every key, in the    *)
(* same session and after a following close and open.                      *)
C7_MergePreservesGet ==
    /\ (isOpen /\ last = "merge") => Visible = expect
    /\ (isOpen /\ last = "open" /\ ended = "mergeclose") => Visible = expect

(* C8: after a successful merge the segments on disk contain exactly the   *)
(* live records: every record in every segment file is the Put record the  *)
(* index refers to for its key (no overwritten version, no tombstone).     *)
C8_MergeLeavesOnlyLiveRecords ==
    (isOpen /\ last = "merge") =>
        \A id \in DOMAIN files : \A i \in 1..Len(files[id]) :
            LET r == files[id][i]
            IN  /\ r.RecordType = RecordTypePut
                /\ r.Key \in DOMAIN memTable
                /\ memTable[r.Key] = NewPos(id, OffsetOf(files[id], i), EncodedLen(r))

(* C9: a second merge right after a merge leaves the live key/value set    *)
(* unchanged and does not increase the total size of the segment files.    *)
C9_SecondMergeStep ==
    (isOpen /\ last = "merge" /\ isOpen' /\ last' = "merge") =>
        /\ VisibleOf(Engine(conf', files', memTable', fileId', offset', oldWal', fileIds'))
               = Visible
        /\ DiskSize(files', DOMAIN files') <= DiskSize(files, DOMAIN files)

C9_MergeIdempotent == [][C9_SecondMergeStep]_vars

(* C10: after a session of writes and a close, reopening with the hint     *)
(* file present yields the same index and the same txn id as reopening     *)
(* with the hint file removed.                                             *)
C10_HintEquivalence ==
    (~isOpen /\ last = "close" /\ cnt.opens = 0) =>
        LET withHint == NewBitcask(files, hint, TRUE)
            noHint == NewBitcask(files, NoHint, TRUE)
        IN  /\ withHint.err = noHint.err
            /\ withHint.memTable = noHint.memTable
            /\ withHint.txnId = noHint.txnId

(* C11: while an engine opened on the directory has not been closed, a     *)
(* second open of the directory fails: never two live engines on it.       *)
C11_LockExclusivity ==
    ~(isOpen /\ second)

(* C12: scan_range(start, end, limit) returns exactly the live keys in     *)
(* [start, end] under the shorter-first comparator, each with its current  *)
(* value, in ascending order, the first limit of them when limit > 0, and  *)
(* no error.  The live keys and their values are those get reports.        *)
ScanBounds == Keys \cup {<<>>, <<97, 0>>}

LiveInRange(start, end) ==
    Ascend({k \in Keys : Visible[k][2] /\ InRange(k, start, end)})

C12_Expected(start, end, lim) ==
    LET live == LiveInRange(start, end)
        n == IF lim > 0 /\ lim < Len(live) THEN lim ELSE Len(live)
    IN  [i \in 1..n |-> <<live[i], Visible[live[i]][1]>>]

C12_ScanRangeExact ==
    isOpen =>
        \A start \in ScanBounds, end \in ScanBounds, lim \in 0..ScanLimit :
            /\ ScanRangeOptimized(Eng, start, end, lim).err = ""
            /\ ScanRangeOptimized(Eng, start, end, lim).results
                   = C12_Expected(start, end, lim)

AllIdle == \A t \in Threads : threads[t].pc = "idle"

PutsOf(k) == {threads[t].puts[k] : t \in {u \in Threads : k \in DOMAIN threads[u].puts}}

LastPut(k) == CHOOSE p \in PutsOf(k) : \A q \in PutsOf(k) : q.seq <= p.seq

Recovered == VisibleOf(NewBitcask(files, NoHint, TRUE))

(* C13: when concurrent puts to one key have all returned, the index entry *)
(* of the key is the location of the record appended last for the key, so  *)
(* get in the session and get after recovery of the directory agree.       *)
C13_IndexFollowsLastAppend ==
    (isOpen /\ AllIdle) =>
        \A k \in Keys : PutsOf(k) # {} =>
            /\ k \in DOMAIN memTable
            /\ memTable[k] = LastPut(k).pos
            /\ Visible[k] = Recovered[k]

(* C15: when several threads put disjoint sets of keys while segments      *)
(* rotate, every put succeeds and get of each key returns exactly the      *)
(* value its thread wrote for it.                                          *)
DisjointKeys ==
    \A t \in Threads, u \in Threads :
        t # u => DOMAIN threads[t].puts \cap DOMAIN threads[u].puts = {}

C15_DisjointPutsReadBack ==
    (isOpen /\ AllIdle /\ DisjointKeys) =>
        \A t \in Threads : \A k \in DOMAIN threads[t].puts :
            Visible[k] = <<threads[t].puts[k].value, TRUE>>

(* C14: a batch commit is serialized with the other writers: between the   *)
(* TxnBegin and the TxnCommit of a committing thread no other thread       *)
(* appends a record to the log.                                            *)
InTxn(t) == threads[t].pc \in {"txnOp", "txnCommit"}

C14_CommitStep ==
    \A t \in Threads :
        (InTxn(t) /\ threads'[t] = threads[t]) =>
            \A id \in DOMAIN files : files'[id] = files[id]

C14_CommitSerialized == [][C14_CommitStep]_vars

(* The consequence C14 draws: recovery of the directory applies every put  *)
(* acknowledged while batches were committing.                             *)
AcknowledgedPutsRecovered ==
    (isOpen /\ AllIdle) =>
        \A k \in Keys : PutsOf(k) # {} => Recovered[k][2]

(* C16: a batch that writes TxnBegin uses a transaction id different from  *)
(* every transaction already committed in the log, and the transaction id  *)
(* counter never moves backwards, in a session and across close and open.  *)
CommittedIds(f) ==
    {DecodeTxnId(f[id][i].Key)[1] :
        <<id, i>> \in {<<d, j>> \in (DOMAIN f) \X (1..12) :
                          /\ j <= Len(f[d])
                          /\ f[d][j].RecordType = RecordTypeTxnCommit}}

C16_Step ==
    /\ (batch.active /\ ~batch'.active /\ files' # files) =>
           batch.txnId \notin CommittedIds(files)
    /\ (isOpen /\ isOpen') => txnId' >= txnId
    /\ (~isOpen /\ isOpen' /\ ended \in {"close", "commitclose", "mergeclose"}) =>
           txnId' >= hint.txnId

C16_TxnIdsUnique == [][C16_Step]_vars

(* C17: an empty value, nil or zero-length, is a legitimate value: once    *)
(* put(k, w) with empty w is the latest write of k, get(k) returns         *)
(* (empty, true) and scan reports k, also after close and open and after   *)
(* merge.                                                                  *)
EmptyFound == << <<>>, TRUE >>

C17_EmptyValueIsLive ==
    (isOpen /\ last \in {"put", "open", "merge"}) =>
        \A k \in Keys : expect[k] = EmptyFound =>
            /\ Visible[k] = EmptyFound
            /\ ScanRangeOptimized(Eng, k, k, 0) =
                   [err |-> "", results |-> << <<k, <<>> >> >>]

(* C18: put with a nil or zero-length key is rejected with an error and    *)
(* leaves the log and the index unchanged; no record with an empty key is  *)
(* ever in a segment or in the index.                                      *)
NoEmptyKey ==
    /\ <<>> \notin DOMAIN memTable
    /\ \A id \in DOMAIN files : \A i \in 1..Len(files[id]) : Len(files[id][i].Key) > 0

C18_Step ==
    /\ last' = "puterror" => (files' = files /\ memTable' = memTable)
    /\ NoEmptyKey'

C18_EmptyKeyRejected == [][C18_Step]_vars

(* C19: get reports not found only when the key is absent or tombstoned;   *)
(* every other failure of the lookup reaches the caller as an error that   *)
(* differs from not found.                                                 *)
C19_GetPropagatesErrors ==
    isOpen =>
        \A k \in Keys :
            BitcaskGet(Eng, k) = NotFound =>
                get(Eng, k).err \in {"ErrKeyNotFound", "ErrKeyHasDeleted"}

(* Bitcask.Get returns what get computed, the error dropped. *)
GetFollowsGet ==
    isOpen =>
        \A k \in Keys :
            BitcaskGet(Eng, k) = IF get(Eng, k).err = ""
                                 THEN <<get(Eng, k).value, TRUE>> ELSE NotFound

(* C20: a commit of a batch whose buffer holds batch_size or more entries  *)
(* fails, appends no record, leaves the index and the engine's txn id      *)
(* unchanged and keeps the buffer; a commit of a batch with fewer entries  *)
(* is not rejected for its size.                                           *)
CommitReturns == batch.active /\ isOpen' /\ cnt'.commits = cnt.commits + 1

C20_Step ==
    CommitReturns =>
        IF Cardinality(DOMAIN batch.mp) >= conf.BatchSize
        THEN /\ last' = "commiterror"
             /\ files' = files
             /\ memTable' = memTable
             /\ txnId' = txnId
             /\ batch' = batch
        ELSE last' \in {"commit", "commitempty"}

C21_FailedCommitInvisible ==
    (isOpen /\ last = "commitfail") =>
        \A k \in Keys \cap DOMAIN batch.mp : Visible[k] = expect[k]

(* C22: after every open, for either value of load_hint, the active        *)
(* segment is the segment file of the highest id and its write offset is   *)
(* the size of that file.                                                  *)
C22_ActiveIsLastAtItsEnd ==
    (isOpen /\ last = "open") =>
        /\ fileId \in DOMAIN files
        /\ \A id \in DOMAIN files : id <= fileId
        /\ offset = SizeOf(files[fileId])

(* C23: with load_hint = false an open does not consult the hint snapshot  *)
(* and rebuilds the index by replaying all segments in ascending id order, *)
(* so every key written before the close is readable after the reopen.     *)
C23_NoHintOpenReplays ==
    (isOpen /\ last = "open" /\ ended = "close" /\ ~conf.LoadHint) =>
        /\ memTable = NewBitcask(files, NoHint, TRUE).memTable
        /\ Visible = Recovered

(* C24: a hint file that exists but is truncated at any byte position, an  *)
(* entry boundary and zero length included, makes open report an error:    *)
(* no engine runs on an index seeded from part of a hint.                  *)
C24_TruncatedHintRejected ==
    (isOpen /\ last = "open") => hint.cut = -1

(* C25: before every append the active segment is rotated when its size is *)
(* at least max_file_size, so no record is appended to a segment whose     *)
(* size was already at least max_file_size: every record of every segment  *)
(* starts below max_file_size, and the active segment is never sealed.     *)
C25_NoAppendToFullSegment ==
    /\ \A id \in DOMAIN files : \A i \in 1..Len(files[id]) :
           OffsetOf(files[id], i) < conf.MaxFileSize
    /\ isOpen => fileId \notin oldWal

(* C26: the running engine has one active segment whose id is greater than *)
(* the id of every sealed segment and of every other segment file on disk, *)
(* and a step that makes a new segment active gives it a greater id that   *)
(* no file on disk carries: ids are not reused and a new segment is empty. *)
ActiveIsHighest ==
    isOpen =>
        /\ fileId \in DOMAIN files
        /\ \A id \in oldWal : id < fileId
        /\ \A id \in DOMAIN files : id <= fileId

C26_Step ==
    /\ ActiveIsHighest'
    /\ (isOpen /\ isOpen' /\ fileId' # fileId) =>
           (fileId' > fileId /\ fileId' \notin DOMAIN files)

C27_Step ==
    isOpen =>
        \A id \in oldWal \cap DOMAIN files \cap DOMAIN files' : files'[id] = files[id]

C27_SealedSegmentReadOnly == [][C27_Step]_vars

(* C28: delete(k) of a key without index entry is a no-op: no record, no   *)
(* rotation, index unchanged; delete(k) of a present key appends exactly   *)
(* one Delete record of k and removes exactly the entry of k.              *)
DeleteOutcome(k, r) ==
    IF k \notin DOMAIN memTable
    THEN r = Eng
    ELSE /\ DOMAIN r.memTable = DOMAIN memTable \ {k}
         /\ \A j \in DOMAIN r.memTable : r.memTable[j] = memTable[j]
         /\ NumRecords(r.files, DOMAIN r.files) = NumRecords(files, DOMAIN files) + 1
         /\ \A id \in DOMAIN files \ {r.fileId} : r.files[id] = files[id]
         /\ r.files[r.fileId] # <<>>
         /\ r.files[r.fileId][Len(r.files[r.fileId])] = Encode(NewRecord(k, Nil))
         /\ r.files[r.fileId][Len(r.files[r.fileId])].RecordType = RecordTypeDelete

C29_Step ==
    (isOpen /\ last' = "mergeerror" /\ cnt'.merges = cnt.merges + 1) =>
        /\ \A id \in DOMAIN files :
               /\ id \in DOMAIN files'
               /\ SubSeq(files'[id], 1, Len(files[id])) = files[id]
        /\ Visible' = Visible

C29_FailedMergeKeepsData == [][C29_Step]_vars

C29_FilesKept ==
    [][(isOpen /\ last' = "mergeerror" /\ cnt'.merges = cnt.merges + 1) =>
           \A id \in DOMAIN files :
               /\ id \in DOMAIN files'
               /\ SubSeq(files'[id], 1, Len(files[id])) = files[id]]_vars

(* C30: a put or delete that returns while a merge is running is not       *)
(* undone by the merge: once the merge has returned and no call is in      *)
(* progress, get of every key written since the merge began returns what   *)
(* the last such write left.                                               *)
C30_MergeKeepsConcurrentWrites ==
    \A t \in Threads :
        (isOpen /\ threads[t].done = "ok" /\ \A u \in Threads : threads[u].pc = "idle") =>
            \A k \in DOMAIN threads[t].wrote : Visible[k] = threads[t].wrote[k]

(* C31: no read of the engine's segment fields or of the index by a read   *)
(* path overlaps a write to them: while a get is between its reads of the  *)
(* file id and of the segment handle, no step changes the file id, the     *)
(* active segment or the sealed-segment map, and while a scan traversal is *)
(* in progress no step changes these or the index.                         *)
C31_Step ==
    \A t \in Threads :
        /\ threads[t].pc \in {"getActive", "getOld"} =>
               UNCHANGED <<fileId, oldWal>>
        /\ threads[t].pc = "scanNext" =>
               UNCHANGED <<fileId, oldWal, memTable>>

C31_ReadsExcludeWrites == [][C31_Step]_vars

(* The records of a file before its first damaged one. *)
BeforeDamage(recs) ==
    SubSeq(recs, 1,
           IF HasDamage(recs)
           THEN (CHOOSE i \in 1..Len(recs) :
                    Damaged(recs[i]) /\ \A j \in 1..(i - 1) : ~Damaged(recs[j])) - 1
           ELSE Len(recs))

(* C32: in the replay of a segment a structurally invalid record ends the  *)
(* replay of that file: after an open without hint the index is the one    *)
(* the replay of the records before the invalid record of each file gives. *)
C32_InvalidRecordEndsReplay ==
    (isOpen /\ last = "open" /\ ~hint.exists) =>
        memTable = NewBitcask([id \in DOMAIN files |-> BeforeDamage(files[id])],
                              NoHint, TRUE).memTable

(* The user keys of the TxnPut and TxnDelete records of a log, in order,   *)
(* each key once.                                                          *)
RECURSIVE TxnKeyOrder(_, _)
TxnKeyOrder(log, seen) ==
    IF log = <<>> THEN <<>>
    ELSE IF Head(log).rec.RecordType \in {RecordTypeTxnPut, RecordTypeTxnDelete}
            /\ DecodeTxnId(Head(log).rec.Key)[2] \notin seen
    THEN <<DecodeTxnId(Head(log).rec.Key)[2]>>
             \o TxnKeyOrder(Tail(log), seen \cup {DecodeTxnId(Head(log).rec.Key)[2]})
    ELSE TxnKeyOrder(Tail(log), seen)

(* The keys of a sequence that are in the set among, in order of first     *)
(* occurrence.                                                             *)
RECURSIVE FirstAdded(_, _, _)
FirstAdded(ks, among, seen) ==
    IF ks = <<>> THEN <<>>
    ELSE IF Head(ks) \in among /\ Head(ks) \notin seen
    THEN <<Head(ks)>> \o FirstAdded(Tail(ks), among, seen \cup {Head(ks)})
    ELSE FirstAdded(Tail(ks), among, seen)

(* The log entries a step appended. *)
Appended ==
    SubSeq(LogOf(files', SortIds(DOMAIN files')),
           Len(LogOf(files, SortIds(DOMAIN files))) + 1,
           Len(LogOf(files', SortIds(DOMAIN files'))))

(* C33: batch put and delete change only the batch buffer, the log and the *)
(* index stay as they are; a commit leaves every key as the latest         *)
(* operation buffered for it says, and writes the keys in the order in     *)
(* which they were first added.                                            *)
C33_Step ==
    /\ last' \in {"batchput", "batchdelete"} =>
           UNCHANGED <<files, memTable, fileId, offset, oldWal>>
    /\ last' = "commit" =>
           /\ Visible' = expect
           /\ TxnKeyOrder(Appended, {})
                  = FirstAdded(batch.keys,
                               { k \in DOMAIN batch.mp :
                                    batch.mp[k] = Nil => k \in DOMAIN memTable },
                               {})

C33_BatchBuffersThenApplies == [][C33_Step]_vars

(* The record appended as record i of segment id, as Encode received it    *)
(* (a nil value and an empty one are both zero value bytes).               *)
AppendedRecord(id, i) ==
    [ok |-> TRUE,
     rec |-> newRecord(files[id][i].Key, files[id][i].Value, files[id][i].RecordType)]

(* C34: decoding the encoding of a record of any type gives an equal       *)
(* record, and ReadPos at the location an append returned gives the record *)
(* that was appended, with the same type, key and value.                   *)
C34_RoundTrip ==
    isOpen =>
        \A id \in DOMAIN files : \A i \in 1..Len(files[id]) :
            /\ DecodeBytes(EncodeBytes(files[id][i])) = AppendedRecord(id, i)
            /\ ReadPos(files[id], NewPos(id, OffsetOf(files[id], i),
                                         EncodedLen(files[id][i])))
                   = AppendedRecord(id, i)

(* The locations of the TxnPut records of a log whose transaction has no   *)
(* TxnCommit: pending holds those of the transaction that is open.         *)
RECURSIVE UncommittedPuts(_, _)
UncommittedPuts(log, pending) ==
    IF log = <<>> THEN pending
    ELSE IF Head(log).rec.RecordType = RecordTypeBegin
    THEN pending \cup UncommittedPuts(Tail(log), {})
    ELSE IF Head(log).rec.RecordType = RecordTypeTxnPut
    THEN UncommittedPuts(Tail(log), pending \cup {Head(log).pos})
    ELSE IF Head(log).rec.RecordType = RecordTypeTxnCommit
    THEN UncommittedPuts(Tail(log), {})
    ELSE UncommittedPuts(Tail(log), pending)

(* C35: the records of a transaction that never wrote its TxnCommit are    *)
(* not applied by a recovery: the index a replay of the segments builds    *)
(* has no entry at the location of a TxnPut record of such a transaction.  *)
C35_UncommittedNeverApplied ==
    \A k \in DOMAIN NewBitcask(files, NoHint, TRUE).memTable :
        NewBitcask(files, NoHint, TRUE).memTable[k]
            \notin UncommittedPuts(LogOf(files, SortIds(DOMAIN files)), {})

(* The last entry of the log of the segments. *)
LastAppended ==
    LogOf(files, SortIds(DOMAIN files))[Len(LogOf(files, SortIds(DOMAIN files)))]

(* C36: a standalone Put or Delete record is applied by a later recovery   *)
(* whatever precedes it in its file: after an acknowledged put or delete   *)
(* whose record ends the log, the index a replay of the segments builds    *)
(* has the key at that record's location, or has no entry for the key if   *)
(* the record is a Delete.                                                 *)
C36_StandaloneAfterOpenTxn ==
    (isOpen /\ last \in {"put", "delete"}
       /\ LogOf(files, SortIds(DOMAIN files)) # <<>>) =>
        /\ LastAppended.rec.RecordType = RecordTypePut =>
               /\ LastAppended.rec.Key \in DOMAIN NewBitcask(files, NoHint, TRUE).memTable
               /\ NewBitcask(files, NoHint, TRUE).memTable[LastAppended.rec.Key]
                      = LastAppended.pos
        /\ LastAppended.rec.RecordType = RecordTypeDelete =>
               LastAppended.rec.Key \notin DOMAIN NewBitcask(files, NoHint, TRUE).memTable

(* C37: with a partial record left by a crash at the tail of a segment,    *)
(* a put or delete acknowledged after the next open is not skipped by a    *)
(* later recovery: the index a replay of the segments builds has the key   *)
(* of the acknowledged record at its location, or no entry for it if the   *)
(* record is a Delete.                                                     *)
C37_AppendsAfterTornTail ==
    (isOpen /\ last \in {"put", "delete"} /\ ended = "putcrash"
       /\ ~Damaged(LastAppended.rec)) =>
        IF LastAppended.rec.RecordType = RecordTypePut
        THEN /\ LastAppended.rec.Key \in DOMAIN NewBitcask(files, NoHint, TRUE).memTable
             /\ NewBitcask(files, NoHint, TRUE).memTable[LastAppended.rec.Key]
                    = LastAppended.pos
        ELSE LastAppended.rec.Key \notin DOMAIN NewBitcask(files, NoHint, TRUE).memTable

(* C38: without I/O failure a merge completes: every id in its snapshot of *)
(* the list of sealed segment ids names a handle in the sealed map at the  *)
(* moment the deletion loop reaches it, so the loop never dereferences a   *)
(* missing handle, also after a reopen followed by rotations.              *)
C38_MergeCompletes == last # "mergepanic"

(* C39: after an append failed with its bytes in the file, the tracked     *)
(* write offset of the active segment equals the size of its file, and a   *)
(* later successful put is readable: every key reads as it did before the  *)
(* put, the key of the put reads the value put.                            *)
C39_OffsetAfterFailedAppend ==
    /\ (isOpen /\ last = "puterror") => offset = SizeOf(files[fileId])
    /\ (isOpen /\ last = "put") => Visible = expect

(* C40: under fair scheduling every call of put, delete, get, scan, batch  *)
(* put, batch delete, commit, hint and merge that a caller has started     *)
(* eventually returns to the caller.                                       *)
C40_EveryCallReturns ==
    \A t \in Threads : (threads[t].pc # "idle") ~> (threads[t].pc = "idle")

====
